---- MODULE Spec2Model ----
(***************************************************************************)
(* Model of the YouTube Live Stream Manager: the thumbnail upload quota    *)
(* gate (app.py), the session store (livesesion.py) and the settings       *)
(* catalog (advanced_settings.py).                                         *)
(*                                                                         *)
(* Time is one wall clock, counted in whole hours of Asia/Jakarta local    *)
(* time (UTC+7, no daylight saving).  Hour 0 is 2024-12-01 00:00.          *)
(***************************************************************************)
EXTENDS Integers, Sequences, FiniteSets, TLC

VARIABLES
    now,            \* the wall clock, in hours
    ticks,          \* how often the clock was advanced
    ret,            \* what the operation that ran last returned
    uploadLog,      \* the file thumbnail_uploads.json
    logged,         \* how many times log_thumbnail_upload was called
    recDay,         \* uploads recorded during the current calendar day
    recHour,        \* uploads recorded during the current clock hour
    sessionFile,    \* the file live_session.json
    tempFile,       \* the file temp_session.json
    made,           \* the browser sessions whose LiveSession was constructed
    session_data,   \* LiveSession.session_data of each browser session
    st_state,       \* st.session_state of each browser session
    exported,       \* the blob export_session returned last
    ops,            \* how many session store and settings operations ran
    aliased,        \* the browser sessions whose 'advanced_settings' form
                    \* snapshot shares its category dicts with self.settings
    settingsFile,   \* the file advanced_settings.json
    settingsMade,   \* the browser sessions whose AdvancedSettings was constructed
    settings,       \* AdvancedSettings.settings of each browser session
    savedDoc,       \* the document the last save_settings wrote
    platform,       \* the video platform: the resources created on it
    callers,        \* where each browser session is in a thumbnail upload
                    \* whose steps interleave with another session's
    uploads         \* how many thumbnails the platform took during the
                    \* current clock hour and the current calendar day

vars == <<now, ticks, ret, uploadLog, logged, recDay, recHour,
          sessionFile, tempFile, made, session_data, st_state, exported, ops,
          aliased, settingsFile, settingsMade, settings, savedDoc, platform,
          callers, uploads>>

quotaVars == <<uploadLog, logged, recDay, recHour>>
sessionVars == <<sessionFile, tempFile, made, session_data, st_state, exported, ops>>
settingsVars == <<aliased, settingsFile, settingsMade, settings, savedDoc>>

(***************************************************************************)
(* Bounds of the model.                                                    *)
(***************************************************************************)
\* how many times the clock is advanced in one behaviour
MaxTicks == 1
\* how many uploads are recorded in one behaviour
MaxUploads == 51
\* how many session store operations run in one behaviour
MaxOps == 2
\* how many edits and applications of the stream settings run
MaxApplyOps == 3
\* how many edits, saves and clicks on Reset to Defaults run
MaxResetOps == 4
\* how many session store operations run when file accesses can raise
MaxFaultOps == 2
\* how many operations run in one behaviour of the export/import scenario
MaxExportOps == 4
\* how many hours the clock of the session store runs
MaxHours == 25
MaxSettingsOps == 2
MaxFormOps == 3
\* how many operations run in one behaviour of the stream page
MaxCreateOps == 2
\* how many uploads the quota log holds before the stream page is opened
MaxPriorUploads == 10
\* how many thumbnails are uploaded in one behaviour of the race
MaxRaceUploads == 12
\* how many uploads are logged while the clock moves on under the race
MaxRacedLogs == 4
\* how many hours one browser session goes on uploading
MaxSeqHours == 7
\* how many live streams are created in one behaviour of the upload scenario
MaxUploadOps == 1
\* how many times the new-stream form is submitted
MaxSubmitOps == 2
\* how many operations run in one behaviour of the notification scenario
MaxNotifyOps == 3

(***************************************************************************)
(* Program constants.                                                      *)
(***************************************************************************)
DAILY_LIMIT == 50
HOURLY_LIMIT == 10
RETENTION_DAYS == 7
RETENTION_HOURS == 24
EXPIRY_SECONDS == 86400
SECONDS_PER_HOUR == 3600

\* the hour at which a behaviour starts: 2024-12-31 22:00
StartHour == 30 * 24 + 22

\* the clock advances by one hour, by 24 or 25 hours, by 7 or by 8 days
Jumps == {1, 24, 25, 7 * 24, 8 * 24}

(***************************************************************************)
(* Files: a file is absent, or holds the document last written to it, or   *)
(* holds bytes that are not valid JSON.                                    *)
(***************************************************************************)
AbsentFile == [state |-> "absent"]
CorruptFile == [state |-> "corrupt"]
FileOf(doc) == [state |-> "json", content |-> doc]

(***************************************************************************)
(* Generic helpers for Python dicts, modelled as functions.                *)
(***************************************************************************)
EmptyDict == <<>>

\* d.get(k, default)
Get(d, k, default) == IF k \in DOMAIN d THEN d[k] ELSE default

\* d[k] = v
Put(d, k, v) == [x \in DOMAIN d \cup {k} |-> IF x = k THEN v ELSE d[x]]

\* {k: v for k, v in d.items() if k in keep}
Restrict(d, keep) == [x \in DOMAIN d \cap keep |-> d[x]]

(***************************************************************************)
(* Calendar: strftime over the window December 2024 .. February 2025.      *)
(* A key such as '2024-12-31' is a string of zero-padded fixed-width       *)
(* decimal fields, so Python's string comparison of two keys is the        *)
(* comparison of the numbers their digits spell: the key is modelled as    *)
(* that number (20241231, and 2024123122 for '2024-12-31-22').             *)
(***************************************************************************)
DayOfHour(h) == h \div 24

\* now.strftime('%Y-%m-%d') for the day with index d
DateKey(d) ==
    IF d < 31 THEN 20241200 + (d + 1)
    ELSE IF d < 62 THEN 20250100 + (d - 30)
    ELSE 20250200 + (d - 61)

\* now.strftime('%Y-%m-%d-%H') for the hour with index h
HourKey(h) == DateKey(DayOfHour(h)) * 100 + (h % 24)

(***************************************************************************)
(* can_upload_thumbnail (app.py 128-150).                                  *)
(***************************************************************************)
NoRet == [kind |-> "none"]

EmptyLog == [daily |-> EmptyDict, hourly |-> EmptyDict]

\* the log as read from the file: the file's content, or the empty log when
\* the file does not exist
ReadLog(file) == IF file.state = "absent" THEN EmptyLog ELSE file.content

CanUploadIgnoringDay(log, h) ==
    LET daily_count == Get(log.daily, DateKey(DayOfHour(h)), 0)
        hourly_count == Get(log.hourly, HourKey(h), 0)
    IN  [kind |-> "can_upload",
         can_upload |-> hourly_count < HOURLY_LIMIT,
         daily_count |-> daily_count,
         hourly_count |-> hourly_count]

CanUploadIgnoringHour(log, h) ==
    LET daily_count == Get(log.daily, DateKey(DayOfHour(h)), 0)
        hourly_count == Get(log.hourly, HourKey(h), 0)
    IN  [kind |-> "can_upload",
         can_upload |-> daily_count < DAILY_LIMIT,
         daily_count |-> daily_count,
         hourly_count |-> hourly_count]

CanUploadSwapped(log, h) ==
    LET daily_count == Get(log.daily, DateKey(DayOfHour(h)), 0)
        hourly_count == Get(log.hourly, HourKey(h), 0)
    IN  [kind |-> "can_upload",
         can_upload |-> daily_count < DAILY_LIMIT /\ hourly_count < HOURLY_LIMIT,
         daily_count |-> hourly_count,
         hourly_count |-> daily_count]

CanUploadAtLimit(log, h) ==
    LET daily_count == Get(log.daily, DateKey(DayOfHour(h)), 0)
        hourly_count == Get(log.hourly, HourKey(h), 0)
    IN  [kind |-> "can_upload",
         can_upload |-> daily_count <= DAILY_LIMIT /\ hourly_count <= HOURLY_LIMIT,
         daily_count |-> daily_count,
         hourly_count |-> hourly_count]

\* the return value (can_upload, daily_count, hourly_count) for the log
\* `log` read at hour h
CanUpload(log, h) ==
    LET daily_count == Get(log.daily, DateKey(DayOfHour(h)), 0)
        hourly_count == Get(log.hourly, HourKey(h), 0)
    IN  [kind |-> "can_upload",
         can_upload |-> daily_count < DAILY_LIMIT /\ hourly_count < HOURLY_LIMIT,
         daily_count |-> daily_count,
         hourly_count |-> hourly_count]

\* the except branch: return True, 0, 0
CanUploadFallback ==
    [kind |-> "can_upload", can_upload |-> TRUE, daily_count |-> 0, hourly_count |-> 0,
     error |-> "Error checking upload quota"]

\* readOk: whether opening and parsing the log file succeeded
can_upload_thumbnail(readOk) ==
    /\ ret' = IF readOk THEN CanUpload(ReadLog(uploadLog), now) ELSE CanUploadFallback
    /\ UNCHANGED <<platform, callers, uploads>>
    /\ UNCHANGED <<now, ticks, uploadLog, logged, recDay, recHour>>
    /\ UNCHANGED sessionVars
    /\ UNCHANGED settingsVars

(***************************************************************************)
(* log_thumbnail_upload (app.py 152-180).                                  *)
(***************************************************************************)
IncrementFromOne(counts, key) == Put(counts, key, 1)

\* upload_log[which][key] = upload_log[which].get(key, 0) + 1
Increment(counts, key) == Put(counts, key, Get(counts, key, 0) + 1)

PruneDailyLate(counts, h) ==
    LET cutoff_date == DateKey(DayOfHour(h - (RETENTION_DAYS + 1) * 24))
    IN  Restrict(counts, {k \in DOMAIN counts : k >= cutoff_date})

\* keep only the last 7 days
PruneDaily(counts, h) ==
    LET cutoff_date == DateKey(DayOfHour(h - RETENTION_DAYS * 24))
    IN  Restrict(counts, {k \in DOMAIN counts : k >= cutoff_date})

PruneHourlyToNow(counts, h) ==
    Restrict(counts, {k \in DOMAIN counts : k >= HourKey(h)})

\* keep only the last 24 hours
PruneHourly(counts, h) ==
    LET cutoff_hour == HourKey(h - RETENTION_HOURS)
    IN  Restrict(counts, {k \in DOMAIN counts : k >= cutoff_hour})

\* the log written back by log_thumbnail_upload called at hour h
LogUpload(log, h) ==
    [daily |-> PruneDaily(Increment(log.daily, DateKey(DayOfHour(h))), h),
     hourly |-> PruneHourly(Increment(log.hourly, HourKey(h)), h)]

\* ioOk: whether reading and writing the log file succeeded; on failure the
\* except branch reports the error and the file is left as it was
log_thumbnail_upload(ioOk) ==
    /\ logged < MaxUploads
    /\ logged' = logged + 1
    /\ IF ioOk
       THEN /\ uploadLog' = FileOf(LogUpload(ReadLog(uploadLog), now))
            /\ recDay' = recDay + 1
            /\ recHour' = recHour + 1
            /\ ret' = [kind |-> "logged"]
       ELSE /\ UNCHANGED <<uploadLog, recDay, recHour>>
            /\ ret' = [kind |-> "log_failed"]
    /\ UNCHANGED <<platform, callers, uploads>>
    /\ UNCHANGED <<now, ticks>>
    /\ UNCHANGED sessionVars
    /\ UNCHANGED settingsVars

(***************************************************************************)
(* Python values and JSON text.  A Python value carries its type, a JSON   *)
(* text is the tree of its tokens; json.dump and json.load are computed as *)
(* the json module computes them: a tuple is written as an array and read  *)
(* back as a list, every other value modelled here is read back as written.*)
(***************************************************************************)
PyNone == <<"none">>
PyBool(b) == <<"bool", IF b THEN "True" ELSE "False">>
PyInt(n) == <<"int", n>>
PyFloat(x) == <<"float", x>>
PyStr(s) == <<"str", s>>
PyList(q) == <<"list", q>>
PyDict(f) == <<"dict", f>>

\* bool(v)
Truthy(v) ==
    CASE v[1] = "none" -> FALSE
      [] v[1] = "bool" -> v[2] = "True"
      [] v[1] \in {"int", "float"} -> v[2] # 0
      [] v[1] = "str" -> v[2] # ""
      [] v[1] \in {"list", "tuple"} -> Len(v[2]) > 0
      [] v[1] = "dict" -> DOMAIN v[2] # {}

\* k in d, d[k], d.get(k, default), d[k] = v, del d[k], for a Python dict d
Keys(d) == DOMAIN d[2]
Has(d, k) == k \in DOMAIN d[2]
Item(d, k) == d[2][k]
ItemOr(d, k, default) == IF Has(d, k) THEN Item(d, k) ELSE default
SetItem(d, k, v) == PyDict(Put(d[2], k, v))
DelItem(d, k) == PyDict(Restrict(d[2], DOMAIN d[2] \ {k}))

\* json.dump(v, f) and json.dumps(v): the JSON text of a Python value
RECURSIVE JsonDump(_)
JsonDump(v) ==
    CASE v[1] = "none" -> <<"null">>
      [] v[1] = "bool" -> IF v[2] = "True" THEN <<"true">> ELSE <<"false">>
      [] v[1] = "int" -> <<"number", v[2]>>
      [] v[1] = "float" -> <<"real", v[2]>>
      [] v[1] = "str" -> <<"string", v[2]>>
      [] v[1] \in {"list", "tuple"} ->
            <<"array", [i \in DOMAIN v[2] |-> JsonDump(v[2][i])]>>
      [] v[1] = "dict" ->
            <<"object", [k \in DOMAIN v[2] |-> JsonDump(v[2][k])]>>

\* json.load(f) and json.loads(s): the Python value of a JSON text
RECURSIVE JsonLoad(_)
JsonLoad(j) ==
    CASE j[1] = "null" -> PyNone
      [] j[1] = "true" -> PyBool(TRUE)
      [] j[1] = "false" -> PyBool(FALSE)
      [] j[1] = "number" -> PyInt(j[2])
      [] j[1] = "real" -> PyFloat(j[2])
      [] j[1] = "string" -> PyStr(j[2])
      [] j[1] = "array" -> PyList([i \in DOMAIN j[2] |-> JsonLoad(j[2][i])])
      [] j[1] = "object" -> PyDict([k \in DOMAIN j[2] |-> JsonLoad(j[2][k])])

\* a text that json.loads rejects
InvalidJson == <<"invalid">>

\* time.time(), in seconds, at hour h
TimeTime(h) == PyFloat(h * SECONDS_PER_HOUR)

\* datetime.now(JAKARTA_TZ).isoformat() at hour h
IsoFormat(h) == PyStr(ToString(h))

(***************************************************************************)
(* The session store (livesesion.py).  Stores are the browser sessions,    *)
(* each with its own st.session_state, session id and LiveSession object.  *)
(***************************************************************************)
Stores == {"A", "B"}

\* st.session_state.session_id: unique per browser session
SessionId == [s \in Stores |-> IF s = "A" THEN "session_A" ELSE "session_B"]

EmptyTable == PyDict(EmptyDict)

\* the records of the session file
FileTable(file) == IF file.state = "json" THEN JsonLoad(file.content) ELSE EmptyTable

LoadSessionKeepAll(file, h) ==
    IF file.state # "json" THEN EmptyTable ELSE JsonLoad(file.content)

\* _load_session at hour h: the records of the file that are younger than
\* 24 hours; {} when the file does not exist or json.load raises
LoadSession(file, h) ==
    IF file.state = "absent" THEN EmptyTable
    ELSE IF file.state = "corrupt" THEN EmptyTable
    ELSE LET data == JsonLoad(file.content)
             current_time == h * SECONDS_PER_HOUR
         IN  PyDict(Restrict(data[2],
                 {session_id \in Keys(data) :
                    current_time
                      - ItemOr(Item(data, session_id), "last_updated", PyInt(0))[2]
                    < EXPIRY_SECONDS}))

\* if self.session_id not in self.session_data: self.session_data[...] = {}
EnsureRecord(table, sid) ==
    IF Has(table, sid) THEN table ELSE SetItem(table, sid, PyDict(EmptyDict))

\* _save_session, lines 50-54: the table with the current session's record
\* stamped
Stamp(table, sid, h) ==
    LET t1 == EnsureRecord(table, sid)
        rec == SetItem(SetItem(Item(t1, sid), "last_updated", TimeTime(h)),
                       "session_id", PyStr(sid))
    IN  SetItem(t1, sid, rec)

\* what writing the two files can do: both written; opening the primary
\* file raises (nothing is written); json.dump into the primary file raises
\* (the file, truncated by open, holds part of a document); opening the
\* backup file raises
WriteOutcomes == {"ok", "primary_fails", "primary_torn", "backup_fails"}

PrimaryMergedWithFile(file, table, io) ==
    IF io = "primary_fails" THEN file
    ELSE IF file.state # "json" THEN FileOf(JsonDump(table))
    ELSE LET old == JsonLoad(file.content)
         IN  FileOf(JsonDump(PyDict(
                 [k \in Keys(old) \cup Keys(table) |->
                     IF Has(table, k) THEN Item(table, k) ELSE Item(old, k)])))

PrimaryRetried(file, table, io) == FileOf(JsonDump(table))

PrimaryAfterSave(file, table, io) ==
    IF io = "primary_fails" THEN file
    ELSE IF io = "primary_torn" THEN CorruptFile
    ELSE FileOf(JsonDump(table))

BackupNeverWritten(file, table, io) == file

BackupWrittenOnce(file, table, io) ==
    IF io = "ok" /\ file.state # "json" THEN FileOf(JsonDump(table)) ELSE file

BackupAfterSave(file, table, io) ==
    IF io = "ok" THEN FileOf(JsonDump(table)) ELSE file

\* _save_session of store s, whose handler has brought the table to `table`
SaveSession(s, table, io) ==
    LET stamped == Stamp(table, SessionId[s], now)
    IN  /\ session_data' = [session_data EXCEPT ![s] = stamped]
        /\ sessionFile' = PrimaryAfterSave(sessionFile, stamped, io)
        /\ tempFile' = BackupAfterSave(tempFile, stamped, io)

\* what every session store operation leaves alone
SessionFrame ==
    /\ ops' = ops + 1
    /\ UNCHANGED <<platform, callers, uploads>>
    /\ UNCHANGED <<now, ticks>>
    /\ UNCHANGED quotaVars
    /\ UNCHANGED <<settingsFile, settingsMade, settings, savedDoc>>

\* LiveSession(): a browser session constructs its session manager.  The
\* browser sessions differ in name only, so A is taken to be the first.
Construct(s, readOk) ==
    /\ s \notin made
    /\ (s = "B" => "A" \in made)
    /\ UNCHANGED <<platform, callers, uploads>>
    /\ UNCHANGED <<now, ticks, ops>>
    /\ UNCHANGED quotaVars
    /\ UNCHANGED settingsVars
    /\ made' = made \cup {s}
    /\ session_data' = [session_data EXCEPT
           ![s] = IF readOk THEN LoadSession(sessionFile, now) ELSE EmptyTable]
    /\ ret' = [kind |-> "load", store |-> s,
               raised |-> ~readOk \/ sessionFile.state = "corrupt"]
    /\ UNCHANGED <<sessionFile, tempFile, st_state, exported>>

SaveBroadcastDataFresh(table, sid, broadcast_data, h) ==
    SetItem(table, sid,
        PyDict([current_broadcast |->
                   PyDict([data |-> broadcast_data,
                           created_at |-> IsoFormat(h),
                           status |-> PyStr("created")])]))

\* the table after save_broadcast_data(broadcast_data), before _save_session
SaveBroadcastData(table, sid, broadcast_data, h) ==
    LET t1 == EnsureRecord(table, sid)
        rec == SetItem(Item(t1, sid), "current_broadcast",
                   PyDict([data |-> broadcast_data,
                           created_at |-> IsoFormat(h),
                           status |-> PyStr("created")]))
    IN  SetItem(t1, sid, rec)

save_broadcast_data(s, broadcast_data, io) ==
    /\ s \in made
    /\ SessionFrame
    /\ SaveSession(s, SaveBroadcastData(session_data[s], SessionId[s],
                                        broadcast_data, now), io)
    /\ st_state' = [st_state EXCEPT ![s] = Put(@, "new_stream_data", broadcast_data)]
    /\ ret' = [kind |-> "save_broadcast_data", store |-> s, saved |-> io = "ok", io |-> io, held |-> Keys(FileTable(tempFile)),
               data |-> broadcast_data]
    /\ UNCHANGED <<made, exported, aliased>>

save_stream_config(s, stream_config, io) ==
    /\ s \in made
    /\ SessionFrame
    /\ LET sid == SessionId[s]
           t1 == EnsureRecord(session_data[s], sid)
           rec1 == IF Has(Item(t1, sid), "stream_configs")
                   THEN Item(t1, sid)
                   ELSE SetItem(Item(t1, sid), "stream_configs", PyList(<<>>))
           config == SetItem(SetItem(stream_config, "saved_at", IsoFormat(now)),
                             "session_id", PyStr(sid))
           rec2 == SetItem(rec1, "stream_configs",
                       PyList(Append(Item(rec1, "stream_configs")[2], config)))
       IN  SaveSession(s, SetItem(t1, sid, rec2), io)
    /\ ret' = [kind |-> "save_stream_config", store |-> s, saved |-> io = "ok", io |-> io, held |-> Keys(FileTable(tempFile))]
    /\ UNCHANGED <<made, st_state, exported, aliased>>

save_streaming_status(s, status_data, io) ==
    /\ s \in made
    /\ SessionFrame
    /\ LET sid == SessionId[s]
           t1 == EnsureRecord(session_data[s], sid)
           rec == SetItem(Item(t1, sid), "streaming_status",
                      PyDict([status |-> status_data,
                              updated_at |-> IsoFormat(now)]))
       IN  SaveSession(s, SetItem(t1, sid, rec), io)
    /\ ret' = [kind |-> "save_streaming_status", store |-> s, saved |-> io = "ok", io |-> io, held |-> Keys(FileTable(tempFile))]
    /\ UNCHANGED <<made, st_state, exported, aliased>>

SaveFormDataUnwrapped(table, sid, form_name, form_data, h) ==
    LET t1 == EnsureRecord(table, sid)
        rec1 == IF Has(Item(t1, sid), "form_data")
                THEN Item(t1, sid)
                ELSE SetItem(Item(t1, sid), "form_data", PyDict(EmptyDict))
        rec2 == SetItem(rec1, "form_data",
                    SetItem(Item(rec1, "form_data"), form_name, form_data))
    IN  SetItem(t1, sid, rec2)

\* the table after save_form_data(form_name, form_data), before _save_session
SaveFormData(table, sid, form_name, form_data, h) ==
    LET t1 == EnsureRecord(table, sid)
        rec1 == IF Has(Item(t1, sid), "form_data")
                THEN Item(t1, sid)
                ELSE SetItem(Item(t1, sid), "form_data", PyDict(EmptyDict))
        rec2 == SetItem(rec1, "form_data",
                    SetItem(Item(rec1, "form_data"), form_name,
                        PyDict([data |-> form_data, saved_at |-> IsoFormat(h)])))
    IN  SetItem(t1, sid, rec2)

save_form_data(s, form_name, form_data, io) ==
    /\ s \in made
    /\ SessionFrame
    /\ SaveSession(s, SaveFormData(session_data[s], SessionId[s],
                                   form_name, form_data, now), io)
    /\ ret' = [kind |-> "save_form_data", store |-> s, saved |-> io = "ok", io |-> io, held |-> Keys(FileTable(tempFile)),
               name |-> form_name, data |-> form_data]
    /\ aliased' = IF form_name = "advanced_settings" THEN aliased \ {s} ELSE aliased
    /\ UNCHANGED <<made, st_state, exported>>

\* self.session_data[self.session_id].get('current_broadcast'), or None
get_current_broadcast(table, sid) ==
    IF Has(table, sid) THEN ItemOr(Item(table, sid), "current_broadcast", PyNone)
    ELSE PyNone

\* self.session_data[self.session_id].get('streaming_status'), or None
get_streaming_status(table, sid) ==
    IF Has(table, sid) THEN ItemOr(Item(table, sid), "streaming_status", PyNone)
    ELSE PyNone

\* get_form_data(form_name)
get_form_data(table, sid, form_name) ==
    IF Has(table, sid)
    THEN LET form_data == ItemOr(Item(table, sid), "form_data", PyDict(EmptyDict))
         IN  ItemOr(ItemOr(form_data, form_name, PyDict(EmptyDict)), "data", PyNone)
    ELSE PyNone

clear_current_broadcast(s, io) ==
    /\ s \in made
    /\ SessionFrame
    /\ LET sid == SessionId[s]
           table == session_data[s]
       IN  IF Has(table, sid)
           THEN /\ SaveSession(s,
                       IF Has(Item(table, sid), "current_broadcast")
                       THEN SetItem(table, sid,
                                DelItem(Item(table, sid), "current_broadcast"))
                       ELSE table, io)
                /\ ret' = [kind |-> "clear_current_broadcast", store |-> s,
                           saved |-> io = "ok", io |-> io, held |-> Keys(FileTable(tempFile))]
           ELSE /\ UNCHANGED <<session_data, sessionFile, tempFile>>
                /\ ret' = [kind |-> "clear_nothing", store |-> s]
    /\ st_state' = [st_state EXCEPT
           ![s] = Restrict(@, DOMAIN @ \ {"new_stream_data"})]
    /\ UNCHANGED <<made, exported, aliased>>

restore_session_state(s) ==
    /\ s \in made
    /\ SessionFrame
    /\ LET sid == SessionId[s]
           current_broadcast == get_current_broadcast(session_data[s], sid)
           streaming_status == get_streaming_status(session_data[s], sid)
           st1 == IF Truthy(current_broadcast)
                     /\ "new_stream_data" \notin DOMAIN st_state[s]
                  THEN Put(st_state[s], "new_stream_data",
                           Item(current_broadcast, "data"))
                  ELSE st_state[s]
           st2 == IF Truthy(streaming_status)
                  THEN Put(st1, "streaming_active",
                           ItemOr(Item(streaming_status, "status"), "active",
                                  PyBool(FALSE)))
                  ELSE st1
       IN  st_state' = [st_state EXCEPT ![s] = st2]
    /\ ret' = [kind |-> "restore_session_state", store |-> s]
    /\ UNCHANGED <<made, session_data, sessionFile, tempFile, exported, aliased>>

CleanupKeptIgnoringHours(table, hours, h) ==
    LET cutoff_time == h * SECONDS_PER_HOUR - 24 * SECONDS_PER_HOUR
    IN  {session_id \in Keys(table) :
            ItemOr(Item(table, session_id), "last_updated", PyInt(0))[2]
            >= cutoff_time}

\* the session ids cleanup_old_sessions(hours) keeps at hour h
CleanupKept(table, hours, h) ==
    LET cutoff_time == h * SECONDS_PER_HOUR - hours * SECONDS_PER_HOUR
    IN  {session_id \in Keys(table) :
            ItemOr(Item(table, session_id), "last_updated", PyInt(0))[2]
            >= cutoff_time}

cleanup_old_sessions(s, hours, io) ==
    /\ s \in made
    /\ SessionFrame
    /\ LET kept == CleanupKept(session_data[s], hours, now)
           cleaned_data == PyDict(Restrict(session_data[s][2], kept))
           cleaned_count == Cardinality(Keys(session_data[s]) \ kept)
       IN  /\ SaveSession(s, cleaned_data, io)
           /\ ret' = [kind |-> "cleanup_old_sessions", store |-> s,
                      saved |-> io = "ok", io |-> io, held |-> Keys(FileTable(tempFile)), hours |-> hours,
                      value |-> cleaned_count]
           /\ aliased' = IF SessionId[s] \in kept THEN aliased ELSE aliased \ {s}
    /\ UNCHANGED <<made, st_state, exported>>

ExportBlobWholeTable(table, sid, h) ==
    JsonDump(PyDict([session_id |-> PyStr(sid),
                     exported_at |-> IsoFormat(h),
                     data |-> table]))

\* json.dumps(export_data) of export_session at hour h
ExportBlob(table, sid, h) ==
    JsonDump(PyDict([session_id |-> PyStr(sid),
                     exported_at |-> IsoFormat(h),
                     data |-> Item(table, sid)]))

\* exported also remembers which store exported and the record it exported
export_session(s) ==
    /\ s \in made
    /\ SessionFrame
    /\ LET sid == SessionId[s]
       IN  IF Has(session_data[s], sid)
           THEN /\ exported' = [state |-> "blob",
                                blob |-> ExportBlob(session_data[s], sid, now),
                                by |-> s,
                                record |-> Item(session_data[s], sid)]
                /\ ret' = [kind |-> "export_session", store |-> s,
                           value |-> ExportBlob(session_data[s], sid, now)]
           ELSE /\ UNCHANGED exported
                /\ ret' = [kind |-> "export_session", store |-> s,
                           value |-> PyNone]
    /\ UNCHANGED <<made, session_data, sessionFile, tempFile, st_state, aliased>>

\* blobs written outside this run: an export of session_X that lost its
\* last_updated stamp, and an export of session_Y taken 30 hours before
\* the run started
ForeignBlobs ==
    {JsonDump(PyDict([session_id |-> PyStr("session_X"),
                      exported_at |-> IsoFormat(StartHour - 30),
                      data |-> PyDict([session_id |-> PyStr("session_X"),
                                       form_data |-> PyDict(EmptyDict)])])),
     JsonDump(PyDict([session_id |-> PyStr("session_Y"),
                      exported_at |-> IsoFormat(StartHour - 30),
                      data |-> PyDict([session_id |-> PyStr("session_Y"),
                                       last_updated |-> TimeTime(StartHour - 30),
                                       stream_configs |-> PyList(<<>>)])]))}

\* the texts import_session is called with
ImportInputs ==
    ForeignBlobs \cup {InvalidJson}
      \cup (IF exported.state = "blob" THEN {exported.blob} ELSE {})

import_session(s, session_json, io) ==
    /\ s \in made
    /\ SessionFrame
    /\ IF session_json = InvalidJson
       THEN /\ UNCHANGED <<session_data, sessionFile, tempFile, aliased>>
            /\ ret' = [kind |-> "import_failed", store |-> s, value |-> PyNone]
       ELSE LET import_data == JsonLoad(session_json)
                imported_session_id == Item(import_data, "session_id")[2]
            IN  /\ SaveSession(s, SetItem(session_data[s], imported_session_id,
                                          Item(import_data, "data")), io)
                /\ ret' = [kind |-> "import_session", store |-> s,
                           saved |-> io = "ok", io |-> io, held |-> Keys(FileTable(tempFile)),
                           text |-> session_json,
                           value |-> imported_session_id]
                /\ aliased' = IF imported_session_id = SessionId[s]
                              THEN aliased \ {s} ELSE aliased
    /\ UNCHANGED <<made, st_state, exported>>

\* the inputs the handlers are called with
Broadcasts ==
    {PyDict([broadcast_id |-> PyStr("b1"), title |-> PyStr("First")]),
     PyDict([broadcast_id |-> PyStr("b2"), title |-> PyStr("Second")])}

FormNames == {"new_stream_form"}

FormDatas ==
    {PyDict([title |-> PyStr("First"), enable_dvr |-> PyBool(TRUE)]),
     PyDict(EmptyDict)}

StreamConfigs == {PyDict([quality |-> PyStr("1080p")])}

Statuses == {PyDict([active |-> PyBool(TRUE)])}

CleanupHours == {0, 24}

(***************************************************************************)
(* The settings catalog (advanced_settings.py).  Every browser session has *)
(* its own AdvancedSettings object; all of them share the settings file.   *)
(***************************************************************************)
\* get_default_settings
DefaultSettings ==
    PyDict([
        stream_settings |-> PyDict([
            enable_dvr |-> PyBool(TRUE),
            enable_content_encryption |-> PyBool(FALSE),
            enable_embed |-> PyBool(TRUE),
            enable_auto_start |-> PyBool(TRUE),
            enable_auto_stop |-> PyBool(TRUE),
            record_from_start |-> PyBool(TRUE),
            monitor_stream |-> PyBool(FALSE),
            broadcast_delay_ms |-> PyInt(0),
            custom_rtmp_url |-> PyStr(""),
            stream_latency |-> PyStr("normal")]),
        thumbnail_settings |-> PyDict([
            auto_upload |-> PyBool(TRUE),
            resize_thumbnail |-> PyBool(TRUE),
            thumbnail_quality |-> PyInt(85),
            backup_thumbnails |-> PyBool(TRUE)]),
        monetization |-> PyDict([
            enable_monetization |-> PyBool(FALSE),
            enable_super_chat |-> PyBool(FALSE),
            enable_channel_memberships |-> PyBool(FALSE),
            enable_merchandise |-> PyBool(FALSE)]),
        technical_settings |-> PyDict([
            video_codec |-> PyStr("h264"),
            audio_codec |-> PyStr("aac"),
            keyframe_interval |-> PyInt(2),
            b_frames |-> PyInt(0),
            audio_sample_rate |-> PyInt(44100),
            audio_channels |-> PyInt(2),
            enable_hardware_encoding |-> PyBool(FALSE)]),
        notification_settings |-> PyDict([
            notify_stream_start |-> PyBool(TRUE),
            notify_stream_end |-> PyBool(TRUE),
            notify_errors |-> PyBool(TRUE),
            webhook_url |-> PyStr("")]),
        security_settings |-> PyDict([
            enable_stream_key_rotation |-> PyBool(FALSE),
            allowed_encoders |-> PyList(<<>>),
            ip_whitelist |-> PyList(<<>>),
            enable_https_only |-> PyBool(TRUE)])])

\* an exception that leaves the function
Raised == <<"raised">>

LoadSettingsUncaught(file) ==
    IF file.state = "absent" THEN DefaultSettings
    ELSE IF file.state = "corrupt" THEN Raised
    ELSE JsonLoad(file.content)

\* load_settings: the file's document, or the default document when the
\* file does not exist or json.load raises
LoadSettings(file) ==
    IF file.state = "absent" THEN DefaultSettings
    ELSE IF file.state = "corrupt" THEN DefaultSettings
    ELSE JsonLoad(file.content)

\* doc[category][key] = value
SetSetting(doc, category, key, value) ==
    SetItem(doc, category, SetItem(Item(doc, category), key, value))

\* the widget values a user sets in the settings form: <<category, key, value>>
WidgetEdits ==
    {<<"stream_settings", "stream_latency", PyStr("low")>>,
     <<"stream_settings", "stream_latency", PyStr("ultra_low")>>,
     <<"stream_settings", "stream_latency", PyStr("normal")>>,
     <<"stream_settings", "enable_dvr", PyBool(FALSE)>>,
     <<"stream_settings", "monitor_stream", PyBool(TRUE)>>,
     <<"stream_settings", "broadcast_delay_ms", PyInt(500)>>,
     <<"notification_settings", "notify_stream_start", PyBool(FALSE)>>,
     <<"notification_settings", "webhook_url", PyStr("https://hook.example")>>,
     <<"security_settings", "allowed_encoders", PyList(<<PyStr("OBS Studio")>>)>>}

\* what every settings operation leaves alone
SettingsFrame ==
    /\ ops' = ops + 1
    /\ UNCHANGED <<platform, callers, uploads>>
    /\ UNCHANGED <<now, ticks>>
    /\ UNCHANGED quotaVars

\* AdvancedSettings(): load_settings, then get_session_manager(), which
\* constructs the browser session's LiveSession when there is none yet
ConstructSettings(s) ==
    /\ s \notin settingsMade
    /\ (s = "B" => "A" \in settingsMade)
    /\ settingsMade' = settingsMade \cup {s}
    /\ settings' = [settings EXCEPT ![s] = LoadSettings(settingsFile)]
    /\ made' = made \cup {s}
    /\ session_data' = IF s \in made THEN session_data
                       ELSE [session_data EXCEPT ![s] = LoadSession(sessionFile, now)]
    /\ ret' = [kind |-> "load_settings", store |-> s]
    /\ UNCHANGED <<platform, callers, uploads>>
    /\ UNCHANGED <<now, ticks, ops, settingsFile, savedDoc, aliased>>
    /\ UNCHANGED <<sessionFile, tempFile, st_state, exported>>
    /\ UNCHANGED quotaVars

\* render_advanced_settings_ui with one widget changed by the user and no
\* button pressed.  current_settings = self.settings.copy() is a shallow
\* copy: the assignments go to the category dicts self.settings holds, and
\* after a save_settings the session record's form snapshot holds the same
\* category dicts.
RenderEdit(s, edit) ==
    /\ s \in settingsMade
    /\ SettingsFrame
    /\ settings' = [settings EXCEPT ![s] = SetSetting(@, edit[1], edit[2], edit[3])]
    /\ session_data' =
         IF s \in aliased
         THEN LET sid == SessionId[s]
                  rec == Item(session_data[s], sid)
                  forms == Item(rec, "form_data")
                  snap == Item(forms, "advanced_settings")
                  snap1 == SetItem(snap, "data",
                               SetSetting(Item(snap, "data"), edit[1], edit[2], edit[3]))
              IN  [session_data EXCEPT ![s] =
                      SetItem(@, sid, SetItem(rec, "form_data",
                          SetItem(forms, "advanced_settings", snap1)))]
         ELSE session_data
    /\ ret' = [kind |-> "render", store |-> s]
    /\ UNCHANGED <<settingsFile, settingsMade, savedDoc, aliased>>
    /\ UNCHANGED <<sessionFile, tempFile, made, st_state, exported>>

SettingsFileNotWritten(file, doc, ioOk) == file

\* the settings file after save_settings
SettingsFileAfterSave(file, doc, ioOk) ==
    IF ioOk THEN FileOf(JsonDump(doc)) ELSE file

\* save_settings with self.settings = doc: the file is written, then the
\* document is saved as the form snapshot 'advanced_settings'; when the
\* write raises, the except branch skips the snapshot
SaveSettings(s, doc, ioOk) ==
    /\ settings' = [settings EXCEPT ![s] = doc]
    /\ settingsFile' = SettingsFileAfterSave(settingsFile, doc, ioOk)
    /\ IF ioOk
       THEN /\ SaveSession(s, SaveFormData(session_data[s], SessionId[s],
                                           "advanced_settings", doc, now), "ok")
            /\ savedDoc' = [state |-> "saved", doc |-> doc]
            /\ aliased' = aliased \cup {s}
       ELSE UNCHANGED <<session_data, sessionFile, tempFile, savedDoc, aliased>>

\* the button Save All Settings
SaveAllSettings(s, ioOk) ==
    /\ s \in settingsMade
    /\ SettingsFrame
    /\ SaveSettings(s, settings[s], ioOk)
    /\ ret' = [kind |-> "save_settings", store |-> s, written |-> ioOk]
    /\ UNCHANGED <<settingsMade, made, st_state, exported>>

\* the button Reset to Defaults
ConfirmedAlways(state) == TRUE

\* line 464: st.session_state.get('confirm_reset', False)
Confirmed(state) == Truthy(Get(state, "confirm_reset", PyBool(FALSE)))

ResetToDefaults(s, ioOk) ==
    /\ s \in settingsMade
    /\ SettingsFrame
    /\ IF Confirmed(st_state[s])
       THEN /\ SaveSettings(s, DefaultSettings, ioOk)
            /\ st_state' = [st_state EXCEPT ![s] = Put(@, "confirm_reset", PyBool(FALSE))]
            /\ ret' = [kind |-> "reset", store |-> s, written |-> ioOk,
                       replaced |-> settings[s]]
       ELSE /\ st_state' = [st_state EXCEPT ![s] = Put(@, "confirm_reset", PyBool(TRUE))]
            /\ ret' = [kind |-> "reset_asked", store |-> s]
            /\ UNCHANGED <<settings, settingsFile, savedDoc, aliased>>
            /\ UNCHANGED <<session_data, sessionFile, tempFile>>
    /\ UNCHANGED <<settingsMade, made, exported>>

\* json.dumps(export_data) of export_settings for the document doc
SettingsExport(doc, h) ==
    JsonDump(PyDict([exported_at |-> IsoFormat(h),
                     version |-> PyStr("1.0"),
                     settings |-> doc]))

\* the files a user uploads to Import Settings: exports of two documents
\* (one with a latency no widget offers), a JSON file that holds no
\* settings, and a file that is no JSON
ImportFiles ==
    {SettingsExport(SetSetting(SetSetting(DefaultSettings,
                        "stream_settings", "stream_latency", PyStr("ultra_low")),
                        "notification_settings", "webhook_url",
                        PyStr("https://hook.example")), StartHour - 30),
     SettingsExport(SetSetting(DefaultSettings,
                        "stream_settings", "stream_latency", PyStr("medium")),
                    StartHour - 30),
     JsonDump(PyDict([version |-> PyStr("1.0")])),
     InvalidJson}

import_settings(s, uploaded_file, ioOk) ==
    /\ s \in settingsMade
    /\ SettingsFrame
    /\ IF uploaded_file # InvalidJson /\ Has(JsonLoad(uploaded_file), "settings")
       THEN /\ SaveSettings(s, Item(JsonLoad(uploaded_file), "settings"), ioOk)
            /\ ret' = [kind |-> "import_settings", store |-> s, written |-> ioOk]
       ELSE /\ ret' = [kind |-> "import_settings_failed", store |-> s]
            /\ UNCHANGED <<settings, settingsFile, savedDoc, aliased>>
            /\ UNCHANGED <<session_data, sessionFile, tempFile>>
    /\ UNCHANGED <<settingsMade, made, st_state, exported>>

\* lines 619-626: the contentDetails flags and the settings they are read from
AppliedFlagsCrossed ==
    [enableAutoStart |-> "enable_auto_start",
     enableAutoStop |-> "enable_auto_stop",
     recordFromStart |-> "record_from_start",
     enableDvr |-> "enable_embed",
     enableContentEncryption |-> "enable_content_encryption",
     enableEmbed |-> "enable_dvr"]

AppliedFlags ==
    [enableAutoStart |-> "enable_auto_start",
     enableAutoStop |-> "enable_auto_stop",
     recordFromStart |-> "record_from_start",
     enableDvr |-> "enable_dvr",
     enableContentEncryption |-> "enable_content_encryption",
     enableEmbed |-> "enable_embed"]

\* broadcast_body['contentDetails'].update(updates)
UpdateDetails(body, updates) ==
    LET details == Item(body, "contentDetails")
    IN  SetItem(body, "contentDetails",
            PyDict([k \in Keys(details) \cup DOMAIN updates |->
                       IF k \in DOMAIN updates THEN updates[k] ELSE Item(details, k)]))

LatencyPreferenceVerbatim(stream_latency) == stream_latency

\* lines 640-646: the latencyPreference for a stream_latency setting
LatencyPreference(stream_latency) ==
    IF stream_latency = PyStr("low") THEN PyStr("low")
    ELSE IF stream_latency = PyStr("ultra_low") THEN PyStr("ultraLow")
    ELSE PyStr("normal")

ApplySettingsSkipped(doc, broadcast_body) == broadcast_body

\* apply_settings_to_broadcast: the broadcast body it returns.  The body is
\* changed in place, so when a key is missing the except branch returns the
\* body as changed up to the statement that raised.
ApplySettings(doc, broadcast_body) ==
    LET body1 == IF Has(broadcast_body, "contentDetails") THEN broadcast_body
                 ELSE SetItem(broadcast_body, "contentDetails", PyDict(EmptyDict))
        stream_settings == Item(doc, "stream_settings")
        body2 == UpdateDetails(body1,
                     [k \in DOMAIN AppliedFlags |-> Item(stream_settings, AppliedFlags[k])])
        body3 == UpdateDetails(body2,
                     [monitorStream |->
                         IF Truthy(Item(stream_settings, "monitor_stream"))
                         THEN PyDict([enableMonitorStream |-> PyBool(TRUE),
                                      broadcastStreamDelayMs |->
                                          Item(stream_settings, "broadcast_delay_ms")])
                         ELSE PyDict([enableMonitorStream |-> PyBool(FALSE),
                                      broadcastStreamDelayMs |-> PyInt(0)])])
        body4 == UpdateDetails(body3,
                     [latencyPreference |->
                         LatencyPreference(Item(stream_settings, "stream_latency"))])
    IN  IF ~Has(doc, "stream_settings") THEN body1
        ELSE IF \E k \in DOMAIN AppliedFlags : ~Has(stream_settings, AppliedFlags[k])
        THEN body1
        ELSE IF ~Has(stream_settings, "monitor_stream") THEN body2
        ELSE IF Truthy(Item(stream_settings, "monitor_stream"))
                /\ ~Has(stream_settings, "broadcast_delay_ms")
        THEN body2
        ELSE IF ~Has(stream_settings, "stream_latency") THEN body3
        ELSE body4

\* the broadcast bodies apply_settings_to_broadcast is called with: the
\* body create_live_stream builds, a body that already carries a latency,
\* and a body without contentDetails
BroadcastBodies ==
    LET snippet == PyDict([title |-> PyStr("First"), description |-> PyStr("")])
        status == PyDict([privacyStatus |-> PyStr("public")])
        details == [enableAutoStart |-> PyBool(FALSE),
                    enableDvr |-> PyBool(TRUE),
                    enableContentEncryption |-> PyBool(TRUE),
                    recordFromStart |-> PyBool(TRUE),
                    enableEmbed |-> PyBool(TRUE)]
    IN  {PyDict([snippet |-> snippet, status |-> status,
                 contentDetails |-> PyDict(details)]),
         PyDict([snippet |-> snippet, status |-> status,
                 contentDetails |->
                     PyDict(Put(details, "latencyPreference", PyStr("low")))]),
         PyDict([snippet |-> snippet, status |-> status])}

apply_settings_to_broadcast(s, broadcast_body) ==
    /\ s \in settingsMade
    /\ SettingsFrame
    /\ ret' = [kind |-> "apply_settings", store |-> s, body |-> broadcast_body,
               value |-> ApplySettings(settings[s], broadcast_body)]
    /\ UNCHANGED settingsVars
    /\ UNCHANGED <<sessionFile, tempFile, made, session_data, st_state, exported>>

\* the settings file is damaged from outside: it no longer holds JSON
DamageSettingsFile ==
    /\ settingsFile.state = "json"
    /\ settingsFile' = CorruptFile
    /\ savedDoc' = [state |-> "none"]
    /\ ret' = NoRet
    /\ UNCHANGED <<platform, callers, uploads>>
    /\ UNCHANGED <<now, ticks, settings, settingsMade, aliased>>
    /\ UNCHANGED sessionVars
    /\ UNCHANGED quotaVars

(***************************************************************************)
(* Notifications (advanced_settings.py 692-741) and the creation of a live *)
(* stream (app.py 421-540).  A call to the platform or to the webhook is   *)
(* written <<name, result>>; ret.calls lists the calls an operation made,  *)
(* in order.                                                               *)
(***************************************************************************)
\* the results of requests.post
PostResults == {"200", "500", "raise"}

\* lines 699-704: should_notify
ShouldNotifyAnyKind(notification_settings, event_type) ==
    \/ Truthy(Item(notification_settings, "notify_stream_start"))
    \/ Truthy(Item(notification_settings, "notify_stream_end"))
    \/ Truthy(Item(notification_settings, "notify_errors"))

ShouldNotify(notification_settings, event_type) ==
    IF event_type = "stream_start"
          /\ Truthy(Item(notification_settings, "notify_stream_start"))
    THEN TRUE
    ELSE IF event_type = "stream_end"
               /\ Truthy(Item(notification_settings, "notify_stream_end"))
    THEN TRUE
    ELSE event_type = "error" /\ Truthy(Item(notification_settings, "notify_errors"))

\* send_notification with the settings document doc, when requests.post
\* would end as `post`: the calls it makes, the in-app notice it shows
\* (st.info or st.error with the bell) and whether an exception leaves it
SendNotification(doc, event_type, post) ==
    IF ~Has(doc, "notification_settings")
    THEN [calls |-> <<>>, notice |-> "none", raised |-> FALSE]
    ELSE LET notification_settings == Item(doc, "notification_settings")
         IN  IF ~ShouldNotify(notification_settings, event_type)
             THEN [calls |-> <<>>, notice |-> "none", raised |-> FALSE]
             ELSE IF Truthy(Item(notification_settings, "webhook_url"))
             THEN IF post = "raise"
                  THEN [calls |-> << <<"requests.post", "raise">> >>,
                        notice |-> "none", raised |-> FALSE]
                  ELSE [calls |-> << <<"requests.post", post>> >>,
                        notice |-> IF event_type = "error" THEN "error" ELSE "info",
                        raised |-> FALSE]
             ELSE [calls |-> <<>>,
                   notice |-> IF event_type = "error" THEN "error" ELSE "info",
                   raised |-> FALSE]

\* the ids the platform gives to the broadcasts and streams it creates, with
\* the ingestion key and the watch URL that go with them
BroadcastIds == <<"b1", "b2", "b3", "b4", "b5", "b6">>
StreamIds == <<"s1", "s2", "s3", "s4", "s5", "s6">>
StreamKeys == <<"key-1", "key-2", "key-3", "key-4", "key-5", "key-6">>
WatchUrls == <<"https://www.youtube.com/watch?v=b1", "https://www.youtube.com/watch?v=b2",
               "https://www.youtube.com/watch?v=b3", "https://www.youtube.com/watch?v=b4",
               "https://www.youtube.com/watch?v=b5", "https://www.youtube.com/watch?v=b6">>

\* the form fields create_live_stream is called with
StreamForms ==
    {[title |-> "First", description |-> "", privacy |-> "public",
      enable_dvr |-> TRUE, enable_auto_start |-> FALSE,
      enable_content_encryption |-> FALSE]}

\* how the calls of one create_live_stream end: get_youtube_service, the
\* three platform calls, thumbnails().set and requests.post
\* (a call that is not reached is written as if it had succeeded)
CallResults ==
    {o \in [service : BOOLEAN, insert : {"ok", "raise"}, stream : {"ok", "raise"},
            bind : {"ok", "raise"}, set : {"ok", "raise"}, post : PostResults] :
        /\ ~o.service => o.insert = "ok"
        /\ o.insert = "raise" => o.stream = "ok"
        /\ o.stream = "raise" => o.bind = "ok"
        /\ (~o.service \/ "raise" \in {o.insert, o.stream, o.bind})
              => (o.set = "ok" /\ o.post = "200")}

\* lines 432-448: broadcast_body
BroadcastBody(form, h) ==
    PyDict([snippet |-> PyDict([title |-> PyStr(form.title),
                                description |-> PyStr(form.description),
                                scheduledStartTime |-> IsoFormat(h)]),
            status |-> PyDict([privacyStatus |-> PyStr(form.privacy)]),
            contentDetails |-> PyDict([enableAutoStart |-> PyBool(form.enable_auto_start),
                                       enableDvr |-> PyBool(form.enable_dvr),
                                       enableContentEncryption |->
                                           PyBool(form.enable_content_encryption),
                                       recordFromStart |-> PyBool(TRUE),
                                       enableEmbed |-> PyBool(TRUE)])])

\* lines 491-501: stream_data for the i-th broadcast and the j-th stream
StreamData(form, i, j, h) ==
    PyDict([broadcast_id |-> PyStr(BroadcastIds[i]),
            stream_id |-> PyStr(StreamIds[j]),
            title |-> PyStr(form.title),
            description |-> PyStr(form.description),
            privacy |-> PyStr(form.privacy),
            rtmp_url |-> PyStr("rtmp://a.rtmp.youtube.com/live2"),
            stream_key |-> PyStr(StreamKeys[j]),
            watch_url |-> PyStr(WatchUrls[i]),
            created_at |-> IsoFormat(h)])

ReachedAfterInsert(o) ==
    IF ~o.service THEN 0 ELSE IF o.insert = "raise" THEN 1 ELSE 4

\* how far create_live_stream gets: 0 no service, 1 the broadcast insert
\* raised, 2 the stream insert raised, 3 the bind raised, 4 all three done
Reached(o) ==
    IF ~o.service THEN 0
    ELSE IF o.insert = "raise" THEN 1
    ELSE IF o.stream = "raise" THEN 2
    ELSE IF o.bind = "raise" THEN 3
    ELSE 4

PlatformCallsRetrying(o) ==
    LET all == << <<"liveBroadcasts.insert", o.insert>>,
                  <<"liveStreams.insert", o.stream>>,
                  <<"liveBroadcasts.bind", o.bind>> >>
        made_calls == SubSeq(all, 1, IF Reached(o) = 4 THEN 3 ELSE Reached(o))
    IN  IF Reached(o) \in {1, 2, 3}
        THEN Append(made_calls, made_calls[Len(made_calls)])
        ELSE made_calls

\* the platform calls create_live_stream makes before the thumbnail
PlatformCalls(o) ==
    LET all == << <<"liveBroadcasts.insert", o.insert>>,
                  <<"liveStreams.insert", o.stream>>,
                  <<"liveBroadcasts.bind", o.bind>> >>
    IN  SubSeq(all, 1, IF Reached(o) = 4 THEN 3 ELSE Reached(o))

\* get_advanced_settings(): the settings document of browser session s,
\* loaded now when s has no AdvancedSettings yet
SettingsOf(s) ==
    IF s \in settingsMade THEN settings[s] ELSE LoadSettings(settingsFile)

\* get_advanced_settings() inside a handler: what it changes
GetAdvancedSettings(s) ==
    /\ settingsMade' = settingsMade \cup {s}
    /\ settings' = [settings EXCEPT ![s] = SettingsOf(s)]

\* send_stream_notification(event_type, ...)
send_stream_notification(s, event_type, post) ==
    /\ s \in made
    /\ SettingsFrame
    /\ GetAdvancedSettings(s)
    /\ ret' = [kind |-> "send_notification", store |-> s, event |-> event_type,
               calls |-> SendNotification(SettingsOf(s), event_type, post).calls,
               notice |-> SendNotification(SettingsOf(s), event_type, post).notice,
               raised |-> SendNotification(SettingsOf(s), event_type, post).raised]
    /\ UNCHANGED <<aliased, settingsFile, savedDoc>>
    /\ UNCHANGED <<sessionFile, tempFile, made, session_data, st_state, exported>>

\* upload_thumbnail once thumbnails().set returned: log_thumbnail_upload
RecordUpload(logOk) ==
    /\ logged' = logged + 1
    /\ IF logOk
       THEN /\ uploadLog' = FileOf(LogUpload(ReadLog(uploadLog), now))
            /\ recDay' = recDay + 1
            /\ recHour' = recHour + 1
       ELSE UNCHANGED <<uploadLog, recDay, recHour>>

\* create_live_stream for browser session s.  o: how the calls end;
\* readOk, logOk, io: whether the quota log can be read, the quota log can
\* be written, and how the write of the session files ends
ClearsFormAlways(success) == TRUE

\* app.py 415-418: the stored form is replaced by {} if success
ClearsForm(success) == success

\* form_data of the submit handler (app.py 380-391)
FormDataOf(form) ==
    PyDict([title |-> PyStr(form.title),
            description |-> PyStr(form.description),
            privacy |-> PyStr(form.privacy),
            enable_dvr |-> PyBool(form.enable_dvr),
            enable_auto_start |-> PyBool(form.enable_auto_start),
            enable_content_encryption |-> PyBool(form.enable_content_encryption)])

\* create_live_stream called with the session table and files as `start`;
\* submitted: the caller is the submit handler of the new-stream form, which
\* goes on to clear the stored form
CreateLiveStream(s, start, submitted, form, thumbnail_file, o, readOk, logOk, io) ==
    /\ s \in made
    /\ ops' = ops + 1
    /\ UNCHANGED <<now, ticks>>
    /\ LET i == Cardinality(platform.broadcasts) + 1
           j == Cardinality(platform.streams) + 1
           broadcast_body == ApplySettings(SettingsOf(s), BroadcastBody(form, now))
           gate == IF readOk THEN CanUpload(ReadLog(uploadLog), now)
                   ELSE CanUploadFallback
           attempted == Reached(o) = 4 /\ thumbnail_file /\ gate.can_upload
           uploaded == attempted /\ o.set = "ok"
           stream_data == StreamData(form, i, j, now)
           notified == SendNotification(SettingsOf(s), "stream_start", o.post)
       IN  /\ IF o.service THEN GetAdvancedSettings(s)
              ELSE UNCHANGED <<settingsMade, settings>>
           /\ platform' =
                [broadcasts |-> platform.broadcasts \cup
                     (IF Reached(o) >= 2 THEN {BroadcastIds[i]} ELSE {}),
                 streams |-> platform.streams \cup
                     (IF Reached(o) >= 3 THEN {StreamIds[j]} ELSE {}),
                 bound |-> platform.bound \cup
                     (IF Reached(o) = 4 THEN {<<BroadcastIds[i], StreamIds[j]>>} ELSE {}),
                 thumbnails |-> platform.thumbnails \cup
                     (IF uploaded THEN {BroadcastIds[i]} ELSE {})]
           /\ IF uploaded THEN RecordUpload(logOk) ELSE UNCHANGED quotaVars
           /\ uploads' = IF uploaded
                         THEN [hour |-> uploads.hour + 1, day |-> uploads.day + 1]
                         ELSE uploads
           /\ LET success == Reached(o) = 4
                  sid == SessionId[s]
                  t2 == IF success
                        THEN Stamp(SaveBroadcastData(start.table, sid, stream_data, now),
                                   sid, now)
                        ELSE start.table
                  p2 == IF success THEN PrimaryAfterSave(start.primary, t2, io)
                        ELSE start.primary
                  b2 == IF success THEN BackupAfterSave(start.backup, t2, io)
                        ELSE start.backup
                  clears == submitted /\ ClearsForm(success)
                  t3 == IF clears
                        THEN Stamp(SaveFormData(t2, sid, "new_stream_form",
                                                PyDict(EmptyDict), now), sid, now)
                        ELSE t2
              IN  /\ session_data' = [session_data EXCEPT ![s] = t3]
                  /\ sessionFile' = IF clears THEN PrimaryAfterSave(p2, t3, "ok") ELSE p2
                  /\ tempFile' = IF clears THEN BackupAfterSave(b2, t3, "ok") ELSE b2
                  /\ st_state' = IF success
                                 THEN [st_state EXCEPT
                                         ![s] = Put(@, "new_stream_data", stream_data)]
                                 ELSE st_state
           /\ ret' = [kind |-> IF submitted THEN "submit" ELSE "create_live_stream",
                      rejected |-> FALSE,
                      store |-> s,
                      form |-> form,
                      value |-> Reached(o) = 4,
                      body |-> IF o.service THEN broadcast_body ELSE PyNone,
                      data |-> IF Reached(o) = 4 THEN stream_data ELSE PyNone,
                      thumbnail |-> IF Reached(o) # 4 \/ ~thumbnail_file THEN "none"
                                    ELSE IF ~gate.can_upload THEN "refused"
                                    ELSE IF o.set = "ok" THEN "uploaded"
                                    ELSE "failed",
                      calls |-> PlatformCalls(o)
                                \o (IF attempted
                                    THEN << <<"thumbnails.set", o.set>> >> ELSE <<>>)
                                \o (IF Reached(o) = 4 THEN notified.calls ELSE <<>>)]
    /\ UNCHANGED <<aliased, settingsFile, savedDoc>>
    /\ UNCHANGED <<made, exported, callers>>

create_live_stream(s, form, thumbnail_file, o, readOk, logOk, io) ==
    CreateLiveStream(s, [table |-> session_data[s], primary |-> sessionFile,
                         backup |-> tempFile],
                     FALSE, form, thumbnail_file, o, readOk, logOk, io)

\* the submit handler of the new-stream form (app.py 378-419): the form is
\* stored, an empty title is rejected, the stream is created and after a
\* success the stored form is replaced by {}
submit_new_stream(s, form, thumbnail_file, o) ==
    LET sid == SessionId[s]
        t1 == Stamp(SaveFormData(session_data[s], sid, "new_stream_form",
                                 FormDataOf(form), now), sid, now)
    IN  IF form.title = ""
        THEN /\ s \in made
             /\ SessionFrame
             /\ SaveSession(s, t1, "ok")
             /\ ret' = [kind |-> "submit", store |-> s, form |-> form,
                        rejected |-> TRUE, value |-> FALSE, calls |-> <<>>]
             /\ UNCHANGED <<made, st_state, exported, aliased>>
        ELSE CreateLiveStream(s, [table |-> t1,
                                 primary |-> PrimaryAfterSave(sessionFile, t1, "ok"),
                                 backup |-> BackupAfterSave(tempFile, t1, "ok")],
                              TRUE, form, thumbnail_file, o, TRUE, TRUE, "ok")

\* a browser session that is not uploading
Idle == [pc |-> "idle", check |-> FALSE, log |-> EmptyLog, at |-> 0]

(***************************************************************************)
(* The thumbnail step of create_live_stream (app.py 487-488) with          *)
(* upload_thumbnail and log_thumbnail_upload, taken one file access or     *)
(* platform call at a time, so that the steps of two browser sessions      *)
(* interleave as the steps of two server threads do.                       *)
(***************************************************************************)
GateIgnored(result) == TRUE

\* line 487: can_upload_thumbnail()[0]
GateAllows(result) == result.can_upload

\* what the steps of an upload leave alone
UploadFrame ==
    /\ UNCHANGED <<now, ticks, platform, ops>>
    /\ UNCHANGED <<sessionFile, tempFile, made, session_data, st_state, exported>>
    /\ UNCHANGED settingsVars

\* line 487: the quota log is read and the gate decides
CheckStep(s) ==
    /\ callers[s].pc = "idle"
    /\ callers' = [callers EXCEPT ![s] =
                      [pc |-> IF GateAllows(CanUpload(ReadLog(uploadLog), now))
                              THEN "allowed" ELSE "idle",
                       check |-> CanUpload(ReadLog(uploadLog), now).can_upload,
                       log |-> EmptyLog, at |-> 0]]
    /\ ret' = CanUpload(ReadLog(uploadLog), now)
    /\ UNCHANGED <<uploads, uploadLog, logged, recDay, recHour>>
    /\ UploadFrame

\* lines 525-528: thumbnails().set
SetStep(s, result) ==
    /\ callers[s].pc = "allowed"
    /\ callers' = [callers EXCEPT ![s].pc = IF result = "ok" THEN "uploaded" ELSE "idle"]
    /\ uploads' = IF result = "ok"
                  THEN [hour |-> uploads.hour + 1, day |-> uploads.day + 1]
                  ELSE uploads
    /\ ret' = [kind |-> "thumbnails.set", store |-> s, result |-> result]
    /\ UNCHANGED <<uploadLog, logged, recDay, recHour>>
    /\ UploadFrame

\* lines 155-163: log_thumbnail_upload reads the log and the clock
LogReadStep(s) ==
    /\ callers[s].pc = "uploaded"
    /\ callers' = [callers EXCEPT ![s] = [pc |-> "read", check |-> callers[s].check,
                                           log |-> ReadLog(uploadLog), at |-> now]]
    /\ ret' = [kind |-> "log_read", store |-> s]
    /\ UNCHANGED <<uploads, uploadLog, logged, recDay, recHour>>
    /\ UploadFrame

\* lines 165-177: log_thumbnail_upload counts, prunes and writes the log
LogWriteStep(s) ==
    /\ callers[s].pc = "read"
    /\ callers' = [callers EXCEPT ![s] = Idle]
    /\ uploadLog' = FileOf(LogUpload(callers[s].log, callers[s].at))
    /\ logged' = logged + 1
    /\ recDay' = recDay + 1
    /\ recHour' = recHour + 1
    /\ ret' = [kind |-> "logged"]
    /\ UNCHANGED uploads
    /\ UploadFrame

(***************************************************************************)
(* The clock.  recDay and recHour are history variables: the number of     *)
(* uploads log_thumbnail_upload has recorded during the current calendar   *)
(* day and during the current clock hour.                                  *)
(***************************************************************************)
\* the clock moves on by j hours
Advance(j) ==
    /\ now' = now + j
    /\ recHour' = 0
    /\ recDay' = IF DayOfHour(now + j) = DayOfHour(now) THEN recDay ELSE 0
    /\ ret' = NoRet
    /\ UNCHANGED <<platform, callers>>
    /\ uploads' = [hour |-> 0,
                   day |-> IF DayOfHour(now + j) = DayOfHour(now) THEN uploads.day ELSE 0]
    /\ UNCHANGED <<uploadLog, logged>>
    /\ UNCHANGED sessionVars
    /\ UNCHANGED settingsVars

Tick(j) ==
    /\ ticks < MaxTicks
    /\ ticks' = ticks + 1
    /\ Advance(j)

Init ==
    /\ now = StartHour
    /\ ticks = 0
    /\ uploadLog = AbsentFile
    /\ logged = 0
    /\ recDay = 0
    /\ recHour = 0
    /\ ret = NoRet
    /\ sessionFile = AbsentFile
    /\ tempFile = AbsentFile
    /\ made = {}
    /\ session_data = [s \in Stores |-> EmptyTable]
    /\ st_state = [s \in Stores |-> EmptyDict]
    /\ exported = [state |-> "none"]
    /\ ops = 0
    /\ aliased = {}
    /\ settingsFile = AbsentFile
    /\ settingsMade = {}
    /\ settings = [s \in Stores |-> PyNone]
    /\ savedDoc = [state |-> "none"]
    /\ platform = [broadcasts |-> {}, streams |-> {}, bound |-> {}, thumbnails |-> {}]
    /\ callers = [s \in Stores |-> Idle]
    /\ uploads = [hour |-> 0, day |-> 0]

NextQuota ==
    \/ can_upload_thumbnail(TRUE)
    \/ log_thumbnail_upload(TRUE)
    \/ \E j \in Jumps : Tick(j)

SpecQuota == Init /\ [][NextQuota]_vars

\* the quota gate and the upload log with a log file whose reading and
\* writing can raise
NextQuotaFault ==
    \/ \E readOk \in BOOLEAN : can_upload_thumbnail(readOk)
    \/ \E ioOk \in BOOLEAN : log_thumbnail_upload(ioOk)
    \/ \E j \in Jumps : Tick(j)

SpecQuotaFault == Init /\ [][NextQuotaFault]_vars

\* the clock of the session store
SessionTick ==
    \E j \in {23, 25} : now + j <= StartHour + MaxHours /\ Tick(j)

\* the session store with files that can be read and written
NextSession ==
    \/ \E s \in Stores : Construct(s, TRUE)
    \/ ops < MaxOps /\ \E s \in Stores, b \in Broadcasts :
           save_broadcast_data(s, b, "ok")
    \/ ops < MaxOps /\ \E s \in Stores, c \in StreamConfigs :
           save_stream_config(s, c, "ok")
    \/ ops < MaxOps /\ \E s \in Stores, d \in Statuses :
           save_streaming_status(s, d, "ok")
    \/ ops < MaxOps /\ \E s \in Stores, n \in FormNames, d \in FormDatas :
           save_form_data(s, n, d, "ok")
    \/ ops < MaxOps /\ \E s \in Stores : clear_current_broadcast(s, "ok")
    \/ ops < MaxOps /\ \E s \in Stores : restore_session_state(s)
    \/ ops < MaxOps /\ \E s \in Stores, h \in CleanupHours :
           cleanup_old_sessions(s, h, "ok")
    \/ ops < MaxOps /\ \E s \in Stores : export_session(s)
    \/ ops < MaxOps /\ \E s \in Stores, j \in ImportInputs :
           import_session(s, j, "ok")
    \/ SessionTick

SpecSession == Init /\ [][NextSession]_vars

\* something outside the application leaves the session file without a
\* valid JSON document
DamageSessionFile ==
    /\ sessionFile.state = "json"
    /\ sessionFile' = CorruptFile
    /\ ret' = NoRet
    /\ UNCHANGED <<platform, callers, uploads>>
    /\ UNCHANGED <<now, ticks, ops>>
    /\ UNCHANGED <<tempFile, made, session_data, st_state, exported>>
    /\ UNCHANGED settingsVars
    /\ UNCHANGED quotaVars

\* the session store with files whose reading and writing can raise
NextSessionFault ==
    \/ \E s \in Stores, readOk \in BOOLEAN : Construct(s, readOk)
    \/ DamageSessionFile
    \/ ops < MaxFaultOps /\ \E s \in Stores, b \in Broadcasts, io \in WriteOutcomes :
           save_broadcast_data(s, b, io)
    \/ ops < MaxFaultOps /\ \E s \in Stores, c \in StreamConfigs, io \in WriteOutcomes :
           save_stream_config(s, c, io)
    \/ ops < MaxFaultOps /\ \E s \in Stores, d \in Statuses, io \in WriteOutcomes :
           save_streaming_status(s, d, io)
    \/ ops < MaxFaultOps /\ \E s \in Stores, n \in FormNames, d \in FormDatas,
                               io \in WriteOutcomes :
           save_form_data(s, n, d, io)
    \/ ops < MaxFaultOps /\ \E s \in Stores, io \in WriteOutcomes :
           clear_current_broadcast(s, io)
    \/ ops < MaxFaultOps /\ \E s \in Stores, h \in CleanupHours, io \in WriteOutcomes :
           cleanup_old_sessions(s, h, io)
    \/ ops < MaxFaultOps /\ \E s \in Stores, j \in ImportInputs, io \in WriteOutcomes :
           import_session(s, j, io)

SpecSessionFault == Init /\ [][NextSessionFault]_vars

\* the export/import scenario: browser session A fills its record and
\* exports it, and a store imports the exported text
NextExport ==
    \/ \E s \in Stores : Construct(s, TRUE)
    \/ ops < MaxExportOps /\ \E b \in Broadcasts :
           save_broadcast_data("A", b, "ok")
    \/ ops < MaxExportOps /\ \E c \in StreamConfigs :
           save_stream_config("A", c, "ok")
    \/ ops < MaxExportOps /\ \E n \in FormNames, d \in FormDatas :
           save_form_data("A", n, d, "ok")
    \/ ops < MaxExportOps /\ export_session("A")
    \/ ops < MaxExportOps /\ exported.state = "blob"
           /\ \E s \in Stores : import_session(s, exported.blob, "ok")
    \/ SessionTick

SpecExport == Init /\ [][NextExport]_vars

\* the keyed accessors of browser session A's store, with everything that
\* writes the records they read: the session store's own writers and the
\* settings page, which saves the form snapshot 'advanced_settings'
NextForms ==
    \/ Construct("A", TRUE)
    \/ ConstructSettings("A")
    \/ ops < MaxFormOps /\ \E b \in Broadcasts : save_broadcast_data("A", b, "ok")
    \/ ops < MaxFormOps /\ \E n \in FormNames, d \in FormDatas :
           save_form_data("A", n, d, "ok")
    \/ ops < MaxFormOps /\ clear_current_broadcast("A", "ok")
    \/ ops < MaxFormOps /\ \E h \in CleanupHours : cleanup_old_sessions("A", h, "ok")
    \/ ops < MaxFormOps /\ export_session("A")
    \/ ops < MaxFormOps /\ \E j \in ImportInputs : import_session("A", j, "ok")
    \/ ops < MaxFormOps /\ \E edit \in WidgetEdits : RenderEdit("A", edit)
    \/ ops < MaxFormOps /\ SaveAllSettings("A", TRUE)
    \/ SessionTick

SpecForms == Init /\ [][NextForms]_vars

\* the widget values that matter to a new live stream
StreamEdits ==
    {<<"stream_settings", "enable_dvr", PyBool(FALSE)>>,
     <<"notification_settings", "notify_stream_start", PyBool(FALSE)>>,
     <<"notification_settings", "webhook_url", PyStr("https://hook.example")>>}

\* the stream page of one browser session: live streams are created, with
\* and without a thumbnail, against a platform and a webhook whose calls can
\* fail; the quota log holds the uploads made before the page was opened;
\* the files can be read and written
NextCreate ==
    \/ made = {} /\ logged < MaxPriorUploads /\ log_thumbnail_upload(TRUE)
    \/ Construct("A", TRUE)
    \/ ConstructSettings("A")
    \/ ops < MaxCreateOps /\ \E edit \in StreamEdits : RenderEdit("A", edit)
    \/ ops < MaxCreateOps /\ \E form \in StreamForms, thumbnail_file \in BOOLEAN,
                                o \in CallResults :
           create_live_stream("A", form, thumbnail_file, o, TRUE, TRUE, "ok")

SpecCreate == Init /\ [][NextCreate]_vars

\* the forms that are submitted: one with a title and one without
SubmitForms ==
    StreamForms \cup
    {[title |-> "", description |-> "About", privacy |-> "private",
      enable_dvr |-> FALSE, enable_auto_start |-> TRUE,
      enable_content_encryption |-> FALSE]}

\* browser session A submits the new-stream form and deletes the stream it
\* created, while time passes
NextSubmit ==
    \/ Construct("A", TRUE)
    \/ ops < MaxSubmitOps /\ \E form \in SubmitForms, thumbnail_file \in BOOLEAN,
                                o \in CallResults :
           submit_new_stream("A", form, thumbnail_file, o)
    \/ ops < MaxSubmitOps /\ clear_current_broadcast("A", "ok")
    \/ SessionTick

SpecSubmit == Init /\ [][NextSubmit]_vars

\* two browser sessions upload thumbnails at the same time
NextRace ==
    \/ uploads.day < MaxRaceUploads /\ \E s \in Stores : CheckStep(s)
    \/ \E s \in Stores, result \in {"ok", "raise"} : SetStep(s, result)
    \/ \E s \in Stores : LogReadStep(s)
    \/ \E s \in Stores : LogWriteStep(s)

SpecRace == Init /\ [][NextRace]_vars

\* two browser sessions upload thumbnails at the same time while the clock
\* moves on
NextLogRace ==
    \/ logged < MaxRacedLogs /\ \E s \in Stores : CheckStep(s)
    \/ \E s \in Stores, result \in {"ok", "raise"} : SetStep(s, result)
    \/ \E s \in Stores : LogReadStep(s)
    \/ \E s \in Stores : LogWriteStep(s)
    \/ \E j \in Jumps : Tick(j)

SpecLogRace == Init /\ [][NextLogRace]_vars

\* an hour ends: between two uploads, with the hour untouched or at its
\* limit, or in the middle of the upload that takes the hour to its limit
HourPasses ==
    /\ now < StartHour + MaxSeqHours
    /\ LET hourly_count == Get(ReadLog(uploadLog).hourly, HourKey(now), 0)
       IN  \/ callers["A"].pc = "idle" /\ hourly_count \in {0, HOURLY_LIMIT}
           \/ callers["A"].pc # "idle" /\ hourly_count = HOURLY_LIMIT - 1
    /\ UNCHANGED ticks
    /\ Advance(1)

\* one browser session uploads thumbnails one after another for hours
NextSequential ==
    \/ CheckStep("A")
    \/ \E result \in {"ok", "raise"} : SetStep("A", result)
    \/ LogReadStep("A")
    \/ LogWriteStep("A")
    \/ HourPasses

SpecSequential == Init /\ [][NextSequential]_vars

\* one live stream is created after earlier uploads, in the hour of those
\* uploads or in a later one
NextUpload ==
    \/ made = {} /\ logged < MaxPriorUploads /\ log_thumbnail_upload(TRUE)
    \/ made = {} /\ Tick(1)
    \/ Construct("A", TRUE)
    \/ ops < MaxUploadOps /\ \E form \in StreamForms, thumbnail_file \in BOOLEAN,
                                o \in CallResults :
           create_live_stream("A", form, thumbnail_file, o, TRUE, TRUE, "ok")

SpecUpload == Init /\ [][NextUpload]_vars

\* the widget values of the notification tab
NotifyEdits ==
    {<<"notification_settings", key, PyBool(b)>> :
        key \in {"notify_stream_start", "notify_stream_end", "notify_errors"},
        b \in BOOLEAN}
    \cup {<<"notification_settings", "webhook_url", PyStr(url)>> :
            url \in {"", "https://hook.example"}}

\* notifications of every kind under every setting of the gates
NextNotify ==
    \/ Construct("A", TRUE)
    \/ ConstructSettings("A")
    \/ ops < MaxNotifyOps /\ \E edit \in NotifyEdits : RenderEdit("A", edit)
    \/ ops < MaxNotifyOps /\ \E e \in {"stream_start", "stream_end", "error", "stream_paused"}, post \in PostResults :
           send_stream_notification("A", e, post)

SpecNotify == Init /\ [][NextNotify]_vars

\* the settings page of two browser sessions
NextSettings ==
    \/ \E s \in Stores : ConstructSettings(s)
    \/ ops < MaxSettingsOps /\ \E s \in Stores, edit \in WidgetEdits :
           RenderEdit(s, edit)
    \/ ops < MaxSettingsOps /\ \E s \in Stores : SaveAllSettings(s, TRUE)
    \/ ops < MaxSettingsOps /\ \E s \in Stores : ResetToDefaults(s, TRUE)
    \/ ops < MaxSettingsOps /\ \E s \in Stores, f \in ImportFiles :
           import_settings(s, f, TRUE)
    \/ ops < MaxSettingsOps /\ \E s \in Stores, b \in BroadcastBodies :
           apply_settings_to_broadcast(s, b)

SpecSettings == Init /\ [][NextSettings]_vars

\* the stream settings the settings page is left with before a broadcast
\* body is built
ApplyEdits ==
    {<<"stream_settings", "enable_dvr", PyBool(FALSE)>>,
     <<"stream_settings", "enable_auto_start", PyBool(FALSE)>>,
     <<"stream_settings", "enable_content_encryption", PyBool(TRUE)>>,
     <<"stream_settings", "monitor_stream", PyBool(TRUE)>>,
     <<"stream_settings", "broadcast_delay_ms", PyInt(500)>>}

\* browser session A edits its stream settings and applies them to bodies
NextApply ==
    \/ ConstructSettings("A")
    \/ ops < MaxApplyOps /\ \E edit \in ApplyEdits : RenderEdit("A", edit)
    \/ ops < MaxApplyOps /\ \E b \in BroadcastBodies :
           apply_settings_to_broadcast("A", b)

SpecApply == Init /\ [][NextApply]_vars

\* browser session A edits, saves and resets its settings
NextReset ==
    \/ ConstructSettings("A")
    \/ ops < MaxResetOps /\ \E edit \in ApplyEdits : RenderEdit("A", edit)
    \/ ops < MaxResetOps /\ SaveAllSettings("A", TRUE)
    \/ ops < MaxResetOps /\ ResetToDefaults("A", TRUE)

SpecReset == Init /\ [][NextReset]_vars

\* the same, with a settings file that can be damaged
NextSettingsFault ==
    \/ NextSettings
    \/ DamageSettingsFile

SpecSettingsFault == Init /\ [][NextSettingsFault]_vars

(***************************************************************************)
(* Reading a key back as a time: the inverse of DateKey and HourKey, used  *)
(* to state how old a stored key is.                                       *)
(***************************************************************************)
DayIndex(k) ==
    LET month == (k \div 100) % 100
        day == k % 100
    IN  IF month = 12 THEN day - 1 ELSE IF month = 1 THEN 30 + day ELSE 61 + day

(***************************************************************************)
(* Claims about the upload quota gate, checked under SpecQuota.            *)
(***************************************************************************)

\* C1: once 50 uploads have been recorded on the current calendar day, a
\* can_upload_thumbnail call made on that day returns can_upload = false,
\* whatever the hour and the hourly count.
C1_DailyCap ==
    (ret.kind = "can_upload" /\ recDay >= DAILY_LIMIT) => ~ret.can_upload

\* the daily cap refuses an upload in an hour whose own count is below 10
C1_Witness ==
    /\ ret.kind = "can_upload"
    /\ recDay >= DAILY_LIMIT
    /\ ret.hourly_count < HOURLY_LIMIT
    /\ ticks > 0

\* C2: once 10 uploads have been recorded within the current clock hour, a
\* can_upload_thumbnail call made during that hour returns can_upload =
\* false, even when the daily count is below 50.
C2_HourlyCap ==
    (ret.kind = "can_upload" /\ recHour >= HOURLY_LIMIT) => ~ret.can_upload

\* the hourly cap refuses an upload on a day whose count is below 50
C2_Witness ==
    /\ ret.kind = "can_upload"
    /\ recHour >= HOURLY_LIMIT
    /\ ret.daily_count < DAILY_LIMIT

\* C9: every can_upload_thumbnail call leaves the quota log as it was and
\* returns (daily < 50 and hourly < 10, daily, hourly), daily and hourly
\* being the counts the log stores under today's date key and the current
\* hour key, 0 for a key the log does not hold.
C9_CanUploadResult ==
    [][ret'.kind = "can_upload" =>
          LET log == IF uploadLog.state = "absent"
                     THEN [daily |-> <<>>, hourly |-> <<>>]
                     ELSE uploadLog.content
              today == DateKey(DayOfHour(now))
              current_hour == HourKey(now)
              daily == IF today \in DOMAIN log.daily THEN log.daily[today] ELSE 0
              hourly == IF current_hour \in DOMAIN log.hourly
                        THEN log.hourly[current_hour] ELSE 0
          IN  /\ uploadLog' = uploadLog
              /\ ret'.can_upload = (daily < 50 /\ hourly < 10)
              /\ ret'.daily_count = daily
              /\ ret'.hourly_count = hourly]_vars

\* a call that found a daily count but no entry for the current hour
C9_Witness ==
    /\ ret.kind = "can_upload"
    /\ ret.can_upload
    /\ ret.daily_count > 0
    /\ ret.hourly_count = 0

\* C10: after every log_thumbnail_upload that wrote the log, no key of the
\* daily map is dated more than 7 days before the current date and no key
\* of the hourly map is more than 24 hours before the current hour.
C10_Pruned ==
    ret.kind = "logged" =>
        /\ \A k \in DOMAIN uploadLog.content.daily :
               DayIndex(k) >= DayOfHour(now) - 7
        /\ \A k \in DOMAIN uploadLog.content.hourly :
               DayIndex(k \div 100) * 24 + (k % 100) >= now - 24

\* an upload recorded after the clock moved on, whose write dropped the key
\* of the earlier day
C10_Witness ==
    /\ ret.kind = "logged"
    /\ logged > recDay
    /\ ticks > 0
    /\ Cardinality(DOMAIN uploadLog.content.daily) = 1
    /\ Cardinality(DOMAIN uploadLog.content.hourly) = 1

(***************************************************************************)
(* Claims about the session store.                                         *)
(***************************************************************************)

\* C3: right after _load_session, every record of the session file whose
\* last_updated is more than 24 hours old, or missing, is absent from the
\* loaded table, and every record updated less than 24 hours ago is in the
\* table, unchanged.  (Holds under SpecSession.)
C3_ExpiryOnLoad ==
    (ret.kind = "load" /\ sessionFile.state = "json") =>
        \A sid \in DOMAIN sessionFile.content[2] :
            LET inFile == sessionFile.content[2][sid]
                missing == "last_updated" \notin DOMAIN inFile[2]
                age == now * 3600 - inFile[2]["last_updated"][2]
                table == session_data[ret.store]
            IN  /\ (missing \/ age > 86400) => sid \notin DOMAIN table[2]
                /\ (~missing /\ age < 86400) =>
                       /\ sid \in DOMAIN table[2]
                       /\ table[2][sid] = JsonLoad(inFile)

\* a load of a file that holds a fresh record, a record more than 24 hours
\* old and a record without last_updated
C3_Witness ==
    /\ ret.kind = "load"
    /\ sessionFile.state = "json"
    /\ \E sid \in DOMAIN sessionFile.content[2] :
           "last_updated" \notin DOMAIN sessionFile.content[2][sid][2]
    /\ \E sid \in DOMAIN sessionFile.content[2] :
           /\ "last_updated" \in DOMAIN sessionFile.content[2][sid][2]
           /\ now * 3600 - sessionFile.content[2][sid][2]["last_updated"][2] > 86400
    /\ \E sid \in DOMAIN sessionFile.content[2] :
           /\ "last_updated" \in DOMAIN sessionFile.content[2][sid][2]
           /\ now * 3600 - sessionFile.content[2][sid][2]["last_updated"][2] < 86400

\* the operations that went through _save_session
IsSave(r) == "saved" \in DOMAIN r

\* C4: every save leaves, in the saving store's table, a record for its
\* current session with last_updated = the time of the save and session_id
\* = its key, and after a successful save the primary and the backup file
\* both hold the whole in-memory table.  (Holds under SpecSession.)
C4_SaveStampsAndWritesBoth ==
    IsSave(ret) =>
        LET sid == SessionId[ret.store]
            table == session_data[ret.store]
        IN  /\ sid \in DOMAIN table[2]
            /\ table[2][sid][2]["last_updated"] = <<"float", now * 3600>>
            /\ table[2][sid][2]["session_id"] = <<"str", sid>>
            /\ ret.saved =>
                   /\ sessionFile.state = "json"
                   /\ JsonLoad(sessionFile.content) = table
                   /\ tempFile = sessionFile

\* a successful save of a table that holds another session's record too
C4_Witness ==
    /\ IsSave(ret)
    /\ ret.saved
    /\ Cardinality(DOMAIN session_data[ret.store][2]) >= 2
    /\ tempFile = sessionFile

\* C5: when a store whose current session is not S imports the text that
\* export_session returned for session S, import_session returns S and the
\* store holds, under key S, a record with the current_broadcast, form_data
\* and stream_configs the exported record had.  (Holds under SpecExport.)
C5_ExportImportRoundTrip ==
    (/\ ret.kind = "import_session"
     /\ exported.state = "blob"
     /\ ret.text = exported.blob
     /\ SessionId[ret.store] # SessionId[exported.by]) =>
        LET S == SessionId[exported.by]
            table == session_data[ret.store]
        IN  /\ ret.value = S
            /\ S \in DOMAIN table[2]
            /\ \A f \in {"current_broadcast", "form_data", "stream_configs"} :
                   /\ f \in DOMAIN table[2][S][2] <=> f \in DOMAIN exported.record[2]
                   /\ f \in DOMAIN exported.record[2] =>
                          table[2][S][2][f] = exported.record[2][f]

\* store B imported A's export of a record holding a broadcast and a form
C5_Witness ==
    /\ ret.kind = "import_session"
    /\ exported.state = "blob"
    /\ ret.text = exported.blob
    /\ ret.store = "B"
    /\ exported.by = "A"
    /\ "current_broadcast" \in DOMAIN session_data["B"][2]["session_A"][2]
    /\ "form_data" \in DOMAIN session_data["B"][2]["session_A"][2]

(***************************************************************************)
(* The settings catalog                                                    *)
(***************************************************************************)
\* the stream_latency of browser session s's settings document
StreamLatency(s) == Item(Item(settings[s], "stream_settings"), "stream_latency")

\* C6: an AdvancedSettings constructed after a save_settings, with no other
\* write to the settings file in between, holds a document identical to the
\* one that was in memory at the save.
C6_SaveLoadRoundTrip ==
    (ret.kind = "load_settings" /\ savedDoc.state = "saved")
        => settings[ret.store] = savedDoc.doc

\* a second browser session loads a document that was edited and saved
C6_Witness ==
    /\ ret.kind = "load_settings"
    /\ ret.store = "B"
    /\ savedDoc.state = "saved"
    /\ savedDoc.doc # DefaultSettings
    /\ settings["B"] = savedDoc.doc

\* C7: load_settings never raises; it returns the default document when the
\* settings file does not exist or holds no valid JSON, and the file's
\* document when the file exists and parses.
C7_LoadSettings ==
    ret.kind = "load_settings" =>
        /\ settings[ret.store] # Raised
        /\ settingsFile.state \in {"absent", "corrupt"}
              => settings[ret.store] = DefaultSettings
        /\ settingsFile.state = "json"
              => settings[ret.store] = JsonLoad(settingsFile.content)

\* a load from a file that holds no valid JSON
C7_Witness ==
    /\ ret.kind = "load_settings"
    /\ settingsFile.state = "corrupt"
    /\ settings[ret.store] = DefaultSettings

\* C8: the body apply_settings_to_broadcast returns has latencyPreference
\* ultraLow when stream_latency is ultra_low, low when it is low, and normal
\* for every other stream_latency, whatever latency the incoming body had.
C8_LatencyPreference ==
    ret.kind = "apply_settings" =>
        LET out == Item(Item(ret.value, "contentDetails"), "latencyPreference")
        IN  /\ StreamLatency(ret.store) = PyStr("ultra_low") => out = PyStr("ultraLow")
            /\ StreamLatency(ret.store) = PyStr("low") => out = PyStr("low")
            /\ StreamLatency(ret.store) \notin {PyStr("ultra_low"), PyStr("low")}
                  => out = PyStr("normal")

\* ultra_low is applied to a body that came in with latency low
C8_Witness ==
    /\ ret.kind = "apply_settings"
    /\ StreamLatency(ret.store) = PyStr("ultra_low")
    /\ Has(ret.body, "contentDetails")
    /\ ItemOr(Item(ret.body, "contentDetails"), "latencyPreference", PyNone) = PyStr("low")
    /\ Item(Item(ret.value, "contentDetails"), "latencyPreference") = PyStr("ultraLow")

(***************************************************************************)
(* The session store, continued                                            *)
(***************************************************************************)
\* the session ids of a table whose last_updated is earlier than now - hours
\* (a record without last_updated counts as updated at time 0)
StaleAt(table, hours) ==
    {sid \in DOMAIN table[2] :
        IF "last_updated" \in DOMAIN table[2][sid][2]
        THEN table[2][sid][2]["last_updated"][2] < (now - hours) * 3600
        ELSE 0 < (now - hours) * 3600}

\* the record _save_session creates for a session that has none
FreshRecord(sid) ==
    <<"dict", [last_updated |-> <<"float", now * 3600>>, session_id |-> <<"str", sid>>]>>

\* C11 as stated: cleanup_old_sessions(h) removes every record whose
\* last_updated is earlier than now - h hours, and the count it returns is
\* the number of session ids that were in the table before the call and are
\* not in it after the call.
C11_CountIsIdsGone ==
    [][ret'.kind = "cleanup_old_sessions" =>
         LET before == session_data[ret'.store]
             after == session_data'[ret'.store]
         IN  /\ \A sid \in StaleAt(before, ret'.hours) : sid \notin DOMAIN after[2]
             /\ ret'.value = Cardinality(DOMAIN before[2] \ DOMAIN after[2])]_vars

\* C11 as amended: the count is the number of records whose last_updated is
\* earlier than now - h hours; each of them is gone after the call, except
\* that the current session's id is in the table again with a fresh record
\* (last_updated and session_id only), so the count exceeds the number of
\* ids that left the table by one when the current session's record was
\* stale.  Every other record is kept.
C11_CountIsRecordsDropped ==
    [][ret'.kind = "cleanup_old_sessions" =>
         LET own == SessionId[ret'.store]
             before == session_data[ret'.store]
             after == session_data'[ret'.store]
             stale == StaleAt(before, ret'.hours)
         IN  /\ ret'.value = Cardinality(stale)
             /\ \A sid \in stale \ {own} : sid \notin DOMAIN after[2]
             /\ own \in stale => after[2][own] = FreshRecord(own)
             /\ \A sid \in DOMAIN before[2] \ (stale \cup {own}) :
                    sid \in DOMAIN after[2] /\ after[2][sid] = before[2][sid]
             /\ ret'.value = Cardinality(DOMAIN before[2] \ DOMAIN after[2])
                                + (IF own \in stale THEN 1 ELSE 0)]_vars

\* a cleanup that counted two records, the current session's among them, and
\* left the current session's id in the table
C11_Witness ==
    /\ ret.kind = "cleanup_old_sessions"
    /\ ret.value = 2
    /\ DOMAIN session_data[ret.store][2] = {SessionId[ret.store]}
    /\ session_data[ret.store][2][SessionId[ret.store]] = FreshRecord(SessionId[ret.store])

\* the step is a save_form_data(name, ...) of store s, made by a handler or
\* by save_settings
WritesForm(s, name) ==
    \/ ret'.kind = "save_form_data" /\ ret'.store = s /\ ret'.name = name
    \/ /\ name = "advanced_settings"
       /\ ret'.kind \in {"save_settings", "reset", "import_settings"}
       /\ ret'.store = s

\* the step is a cleanup_old_sessions of store s that drops s's own record
DropsOwn(s) ==
    /\ ret'.kind = "cleanup_old_sessions"
    /\ ret'.store = s
    /\ SessionId[s] \in StaleAt(session_data[s], ret'.hours)

\* the step is an import_session of store s under s's own session id
ImportsOwn(s) ==
    ret'.kind = "import_session" /\ ret'.store = s /\ ret'.value = SessionId[s]

\* the step is a widget edit on the settings page of s while the snapshot
\* 'advanced_settings' shares its category dicts with the settings document
EditsShared(s, name) ==
    name = "advanced_settings" /\ ret'.kind = "render" /\ ret'.store = s /\ s \in aliased

\* C12, the part both statements share: right after save_form_data(name, d)
\* get_form_data(name) is d; right after save_broadcast_data(b)
\* get_current_broadcast is a payload with data b and status 'created';
\* right after clear_current_broadcast it is None.
AccessorsRightAfter ==
    /\ ret'.kind = "save_form_data" =>
           get_form_data(session_data'[ret'.store], SessionId[ret'.store], ret'.name)
               = ret'.data
    /\ ret'.kind = "save_broadcast_data" =>
           LET cb == get_current_broadcast(session_data'[ret'.store], SessionId[ret'.store])
           IN  cb # PyNone /\ Item(cb, "data") = ret'.data
                           /\ Item(cb, "status") = PyStr("created")
    /\ ret'.kind \in {"clear_current_broadcast", "clear_nothing"} =>
           get_current_broadcast(session_data'[ret'.store], SessionId[ret'.store]) = PyNone

\* C12 as stated, for the forms the handlers save: a saved form snapshot is
\* what get_form_data returns until the next save_form_data for that name,
\* and once there is no current broadcast get_current_broadcast returns None
\* until the next save_broadcast_data.
C12_KeyedAccessors ==
    [][/\ AccessorsRightAfter
       /\ \A s \in made, name \in FormNames :
              LET was == get_form_data(session_data[s], SessionId[s], name)
              IN  (was # PyNone /\ ~WritesForm(s, name)) =>
                      get_form_data(session_data'[s], SessionId[s], name) = was
       /\ \A s \in made :
              (/\ get_current_broadcast(session_data[s], SessionId[s]) = PyNone
               /\ ~(ret'.kind = "save_broadcast_data" /\ ret'.store = s)) =>
                  get_current_broadcast(session_data'[s], SessionId[s]) = PyNone]_vars

\* C12 as amended: the same, where "until" also ends at a
\* cleanup_old_sessions that drops the session's own record, at an
\* import_session under the session's own id and, for the snapshot
\* 'advanced_settings', at a widget edit of the settings document it shares
\* its category dicts with.
C12_KeyedAccessorsUntilReplaced ==
    [][/\ AccessorsRightAfter
       /\ \A s \in made, name \in FormNames \cup {"advanced_settings"} :
              LET was == get_form_data(session_data[s], SessionId[s], name)
              IN  (/\ was # PyNone
                   /\ ~WritesForm(s, name)
                   /\ ~DropsOwn(s)
                   /\ ~ImportsOwn(s)
                   /\ ~EditsShared(s, name)) =>
                      get_form_data(session_data'[s], SessionId[s], name) = was
       /\ \A s \in made :
              (/\ get_current_broadcast(session_data[s], SessionId[s]) = PyNone
               /\ ~(ret'.kind = "save_broadcast_data" /\ ret'.store = s)
               /\ ~ImportsOwn(s)) =>
                  get_current_broadcast(session_data'[s], SessionId[s]) = PyNone]_vars

\* a form snapshot was saved (the export taken then shows it) and a later
\* cleanup dropped the record: the form is gone although no save_form_data
\* came in between
C12_Witness ==
    /\ exported.state = "blob"
    /\ Has(ItemOr(exported.record, "form_data", PyDict(EmptyDict)), "new_stream_form")
    /\ ret.kind = "cleanup_old_sessions"
    /\ ret.value >= 1
    /\ get_form_data(session_data[ret.store], SessionId[ret.store], "new_stream_form")
           = PyNone

(***************************************************************************)
(* The creation of a live stream                                           *)
(***************************************************************************)
\* the calls start with a broadcast insert, a stream insert and a bind that
\* all succeeded, in that order
ThreeSucceeded(calls) ==
    /\ Len(calls) >= 3
    /\ calls[1] = <<"liveBroadcasts.insert", "ok">>
    /\ calls[2] = <<"liveStreams.insert", "ok">>
    /\ calls[3] = <<"liveBroadcasts.bind", "ok">>

\* browser session s stores after the step what it stored before: its table,
\* the session files and its st.session_state
StoredUnchanged(s) ==
    /\ session_data'[s] = session_data[s]
    /\ st_state'[s] = st_state[s]
    /\ UNCHANGED <<sessionFile, tempFile>>

\* C13: create_live_stream returns True exactly when the broadcast insert,
\* the stream insert and the bind succeeded, in that order; exactly then the
\* new broadcast is the session's current broadcast afterwards, and otherwise
\* nothing the session has stored changes.  A thumbnail that fails or is
\* refused and a notification that fails are among the cases and change
\* neither.
C13_CreateResult ==
    [][ret'.kind = "create_live_stream" =>
         LET s == ret'.store
             cb == get_current_broadcast(session_data'[s], SessionId[s])
         IN  /\ ret'.value <=> ThreeSucceeded(ret'.calls)
             /\ ThreeSucceeded(ret'.calls) =>
                    /\ cb # PyNone
                    /\ Item(cb, "data") = ret'.data
                    /\ Item(ret'.data, "broadcast_id")[2]
                           \in platform'.broadcasts \ platform.broadcasts
                    /\ st_state'[s]["new_stream_data"] = ret'.data
             /\ ~ThreeSucceeded(ret'.calls) => StoredUnchanged(s)]_vars

\* a stream was created although the quota gate refused its thumbnail and
\* the webhook call raised
C13_Witness ==
    /\ ret.kind = "create_live_stream"
    /\ ret.value
    /\ ret.thumbnail = "refused"
    /\ ret.calls[Len(ret.calls)] = <<"requests.post", "raise">>
    /\ Item(get_current_broadcast(session_data[ret.store], SessionId[ret.store]), "data")
           = ret.data

\* the broadcast insert succeeded and the stream insert or the bind raised
FailedAfterInsert(calls) ==
    /\ Len(calls) >= 2
    /\ calls[1] = <<"liveBroadcasts.insert", "ok">>
    /\ \/ calls[2] = <<"liveStreams.insert", "raise">>
       \/ /\ Len(calls) >= 3
          /\ calls[2] = <<"liveStreams.insert", "ok">>
          /\ calls[3] = <<"liveBroadcasts.bind", "raise">>

\* C14: when the stream insert or the bind fails after the broadcast insert
\* succeeded, create_live_stream returns False, the failed call is its last
\* call (no delete, no other call, no second attempt), nothing the session
\* has stored changes, and the platform holds one broadcast more than before,
\* bound to no stream.
C14_NoRollback ==
    [][(ret'.kind = "create_live_stream" /\ FailedAfterInsert(ret'.calls)) =>
         LET s == ret'.store
             calls == ret'.calls
             created == platform'.broadcasts \ platform.broadcasts
         IN  /\ ~ret'.value
             /\ calls[Len(calls)][2] = "raise"
             /\ \A k \in 1..(Len(calls) - 1) : calls[k][2] = "ok"
             /\ \A k, l \in 1..Len(calls) : calls[k][1] = calls[l][1] => k = l
             /\ \A k \in 1..Len(calls) :
                    calls[k][1] \in {"liveBroadcasts.insert", "liveStreams.insert",
                                     "liveBroadcasts.bind"}
             /\ StoredUnchanged(s)
             /\ Cardinality(created) = 1
             /\ platform.broadcasts \subseteq platform'.broadcasts
             /\ \A pair \in platform'.bound : pair[1] \notin created]_vars

\* the bind raised: the broadcast and the stream exist, unbound
C14_Witness ==
    /\ ret.kind = "create_live_stream"
    /\ ~ret.value
    /\ ret.calls = << <<"liveBroadcasts.insert", "ok">>,
                      <<"liveStreams.insert", "ok">>,
                      <<"liveBroadcasts.bind", "raise">> >>
    /\ platform.broadcasts = {"b1"}
    /\ platform.streams = {"s1"}
    /\ platform.bound = {}
    /\ get_current_broadcast(session_data[ret.store], SessionId[ret.store]) = PyNone

\* C15 (quota race): when the check, the upload and the record step of two
\* callers interleave, every thumbnail the platform takes is sent by a caller
\* whose can_upload_thumbnail call had just returned true, and still the
\* hourly limit is passed (the state of C15_Witness is reached).
\* (Holds under SpecRace.)
C15_QuotaRace ==
    [][uploads'.hour = uploads.hour + 1 =>
         \E s \in Stores : /\ callers[s].pc = "allowed"
                            /\ callers[s].check
                            /\ callers'[s].pc = "uploaded"]_vars

\* more than HOURLY_LIMIT thumbnails were uploaded in one clock hour
C15_Witness ==
    /\ ticks = 0
    /\ uploads.hour > HOURLY_LIMIT

\* C16 (last writer wins): after a save by a browser session the session
\* file holds that session's table, and a record of another browser session
\* that was in the file but not in the writer's table (the writer had loaded
\* before it was saved, and is not importing it now) is no longer in the file.
\* (Holds under SpecSession.)
C16_LastWriterWins ==
    [][(IsSave(ret') /\ ret'.saved) =>
         /\ FileTable(sessionFile') = session_data'[ret'.store]
         /\ \A t \in Stores \ {ret'.store} :
                (/\ Has(FileTable(sessionFile), SessionId[t])
                 /\ ~Has(session_data[ret'.store], SessionId[t])
                 /\ ret'.kind # "import_session")
                => ~Has(FileTable(sessionFile'), SessionId[t])]_vars

\* browser session B, which loaded before A saved, has saved after it: A
\* holds the record it saved, and the file no longer does
C16_Witness ==
    /\ IsSave(ret)
    /\ ret.saved
    /\ ret.store = "B"
    /\ Has(session_data["A"], SessionId["A"])
    /\ Has(Item(session_data["A"], SessionId["A"]), "last_updated")
    /\ ~Has(session_data["B"], SessionId["A"])
    /\ ~Has(FileTable(sessionFile), SessionId["A"])
    /\ Has(FileTable(sessionFile), SessionId["B"])

\* C17 (session store failure policy): a load whose read or parse raises
\* leaves the store with an empty table; a save whose write raises is made
\* once (a file whose open raised is as it was, a file whose dump raised is
\* torn, the backup is not written) and the operation around it runs to its
\* end: the table is stamped and st.session_state is set.
\* (Holds under SpecSessionFault.)
C17_FailurePolicy ==
    [][/\ (ret'.kind = "load" /\ ret'.raised)
            => session_data'[ret'.store] = EmptyTable
       /\ (IsSave(ret') /\ ~ret'.saved) =>
            LET s == ret'.store
                table == session_data'[s]
            IN  /\ tempFile' = tempFile
                /\ ret'.io = "primary_fails" => sessionFile' = sessionFile
                /\ ret'.io = "primary_torn" => sessionFile' = CorruptFile
                /\ ret'.io = "backup_fails" => FileTable(sessionFile') = table
                /\ Has(table, SessionId[s])
                /\ Item(Item(table, SessionId[s]), "last_updated") = TimeTime(now)
                /\ ret'.kind = "save_broadcast_data"
                      => st_state'[s]["new_stream_data"] = ret'.data]_vars

\* a save whose primary file could not be opened, made over a file that
\* holds an earlier table
C17_Witness ==
    /\ IsSave(ret)
    /\ ret.io = "primary_fails"
    /\ sessionFile.state = "json"
    /\ FileTable(sessionFile) # session_data[ret.store]

\* C18 (uniform fallback of the quota gate): a can_upload_thumbnail call
\* whose read of the quota log raised shows the error and returns false,
\* upload not allowed.
\* (Fails under SpecQuotaFault: the except branch returns True, 0, 0.)
C18_FallbackIsFalse ==
    (ret.kind = "can_upload" /\ "error" \in DOMAIN ret) => ~ret.can_upload

\* the log's count for the day of hour h, and for hour h
DailyCount(file, h) == Get(ReadLog(file).daily, DateKey(DayOfHour(h)), 0)
HourlyCount(file, h) == Get(ReadLog(file).hourly, HourKey(h), 0)

\* C19: a create_live_stream whose thumbnail upload succeeded leaves today's
\* count and the current hour's count each one higher than before; one whose
\* thumbnails().set raised, whose upload the gate refused, or that had no
\* thumbnail to upload leaves the log as it was.
\* (Holds under SpecUpload.)
C19_CountedOnce ==
    [][ret'.kind = "create_live_stream" =>
         IF ret'.thumbnail = "uploaded"
         THEN /\ DailyCount(uploadLog', now) = DailyCount(uploadLog, now) + 1
              /\ HourlyCount(uploadLog', now) = HourlyCount(uploadLog, now) + 1
         ELSE uploadLog' = uploadLog]_vars

\* a thumbnail uploaded in an hour that had uploads before
C19_Witness ==
    /\ ret.kind = "create_live_stream"
    /\ ret.thumbnail = "uploaded"
    /\ HourlyCount(uploadLog, now) >= 3
    /\ DailyCount(uploadLog, now) > HourlyCount(uploadLog, now)

\* the gate of each event kind that has one (lines 699-704)
GateOf == [stream_start |-> "notify_stream_start",
           stream_end |-> "notify_stream_end",
           error |-> "notify_errors"]

\* C20: send_notification posts to the webhook only for an event kind that
\* has a gate, with that gate on and a webhook URL set; with the gate off or
\* an unknown event kind it makes no call and shows no notice; it makes at
\* most one POST, whatever the POST's outcome, and no exception leaves it.
\* (Holds under SpecNotify.)
C20_Notification ==
    ret.kind = "send_notification" =>
        LET notification_settings == Item(settings[ret.store], "notification_settings")
            gated == /\ ret.event \in DOMAIN GateOf
                     /\ Truthy(Item(notification_settings, GateOf[ret.event]))
        IN  /\ ret.calls # <<>>
                  => gated /\ Item(notification_settings, "webhook_url") # PyStr("")
            /\ ~gated => ret.calls = <<>> /\ ret.notice = "none"
            /\ Len(ret.calls) <= 1
            /\ \A k \in 1..Len(ret.calls) : ret.calls[k][1] = "requests.post"
            /\ ~ret.raised

\* a stream_end notification whose POST was answered with an error status
C20_Witness ==
    /\ ret.kind = "send_notification"
    /\ ret.event = "stream_end"
    /\ ret.calls = << <<"requests.post", "500">> >>
    /\ ret.notice = "info"

\* C21: the body apply_settings_to_broadcast returns has contentDetails
\* enableAutoStart, enableAutoStop, enableDvr, enableContentEncryption and
\* enableEmbed equal to the stream settings of the same meaning, has
\* monitorStream {true, broadcast_delay_ms} when monitor_stream is on and
\* {false, 0} otherwise, and has the snippet and status it came in with.
\* (Holds under SpecApply.)
C21_AppliedSettings ==
    ret.kind = "apply_settings" =>
        LET stream_settings == Item(settings[ret.store], "stream_settings")
            details == Item(ret.value, "contentDetails")
        IN  /\ Item(details, "enableAutoStart") = Item(stream_settings, "enable_auto_start")
            /\ Item(details, "enableAutoStop") = Item(stream_settings, "enable_auto_stop")
            /\ Item(details, "enableDvr") = Item(stream_settings, "enable_dvr")
            /\ Item(details, "enableContentEncryption")
                  = Item(stream_settings, "enable_content_encryption")
            /\ Item(details, "enableEmbed") = Item(stream_settings, "enable_embed")
            /\ Item(details, "monitorStream") =
                  (IF Item(stream_settings, "monitor_stream") = PyBool(TRUE)
                   THEN PyDict([enableMonitorStream |-> PyBool(TRUE),
                                broadcastStreamDelayMs |->
                                    Item(stream_settings, "broadcast_delay_ms")])
                   ELSE PyDict([enableMonitorStream |-> PyBool(FALSE),
                                broadcastStreamDelayMs |-> PyInt(0)]))
            /\ Item(ret.value, "snippet") = Item(ret.body, "snippet")
            /\ Item(ret.value, "status") = Item(ret.body, "status")

\* monitor_stream is on with a delay of 500 ms
C21_Witness ==
    /\ ret.kind = "apply_settings"
    /\ Has(ret.body, "contentDetails")
    /\ Item(Item(ret.value, "contentDetails"), "monitorStream")
          = PyDict([enableMonitorStream |-> PyBool(TRUE),
                    broadcastStreamDelayMs |-> PyInt(500)])

\* C22 (sequential quota bound): with one caller whose uploads follow one
\* another, starting from an empty quota log, the platform never takes more
\* than DAILY_LIMIT thumbnails in a day or HOURLY_LIMIT in a clock hour.
\* (Holds under SpecSequential.)
C22_SequentialBound ==
    /\ uploads.hour <= HOURLY_LIMIT
    /\ uploads.day <= DAILY_LIMIT

\* the gate refuses the next upload of a day that has had DAILY_LIMIT, in
\* an hour that is below its own limit
C22_Witness ==
    /\ uploads.day = DAILY_LIMIT
    /\ uploads.hour < HOURLY_LIMIT
    /\ ret.kind = "can_upload"
    /\ ~ret.can_upload

\* C23 (settings override the form): in the body create_live_stream passes
\* to the broadcast insert, enableDvr, enableAutoStart and
\* enableContentEncryption are the values of the stream settings, whatever
\* was chosen in the new-stream form.
\* (Holds under SpecCreate.)
C23_SettingsOverrideForm ==
    (ret.kind = "create_live_stream" /\ ret.body # PyNone) =>
        LET stream_settings == Item(settings[ret.store], "stream_settings")
            details == Item(ret.body, "contentDetails")
        IN  \A k \in {"enable_dvr", "enable_auto_start", "enable_content_encryption"} :
               PyBool(ret.form[k]) # Item(stream_settings, k)
                  => \E d \in {"enableDvr", "enableAutoStart", "enableContentEncryption"} :
                        /\ AppliedFlags[d] = k
                        /\ Item(details, d) = Item(stream_settings, k)
                        /\ Item(details, d) # PyBool(ret.form[k])

\* the form asked for DVR and no auto start, the settings say the opposite
\* of both, and the broadcast was inserted
C23_Witness ==
    /\ ret.kind = "create_live_stream"
    /\ ret.value
    /\ ret.form.enable_dvr
    /\ ~ret.form.enable_auto_start
    /\ Item(Item(ret.body, "contentDetails"), "enableDvr") = PyBool(FALSE)
    /\ Item(Item(ret.body, "contentDetails"), "enableAutoStart") = PyBool(TRUE)

\* C24 (UI state agrees with the store): after save_broadcast_data,
\* clear_current_broadcast, cleanup_old_sessions, import_session or
\* restore_session_state, st.session_state holds new_stream_data exactly
\* when the current session's record has a current_broadcast, and then it
\* is that broadcast's data.
\* (Fails under SpecSession: cleanup_old_sessions and import_session leave
\* st.session_state as it was.)
C24_MirrorAgrees ==
    ret.kind \in {"save_broadcast_data", "clear_current_broadcast", "clear_nothing",
                  "cleanup_old_sessions", "import_session", "restore_session_state"} =>
        LET s == ret.store
            current_broadcast == get_current_broadcast(session_data[s], SessionId[s])
        IN  /\ "new_stream_data" \in DOMAIN st_state[s] <=> Truthy(current_broadcast)
            /\ Truthy(current_broadcast)
                  => st_state[s]["new_stream_data"] = Item(current_broadcast, "data")

\* C25 (failed load, then save): a load whose read or parse raised gives an
\* empty table and leaves the backup file alone, whatever the backup holds;
\* the first successful save of a store with an empty table, other than an
\* import, leaves the primary and the backup file with a table of that
\* store's record only, so every other record the backup held is gone.
\* (Holds under SpecSessionFault.)
C25_FailedLoadThenSave ==
    [][/\ (ret'.kind = "load" /\ ret'.raised) =>
            /\ session_data'[ret'.store] = EmptyTable
            /\ tempFile' = tempFile
       /\ (/\ IsSave(ret')
           /\ ret'.saved
           /\ ret'.kind # "import_session"
           /\ session_data[ret'.store] = EmptyTable) =>
            /\ Keys(FileTable(sessionFile')) = {SessionId[ret'.store]}
            /\ tempFile' = sessionFile'
            /\ \A id \in Keys(FileTable(tempFile)) \ {SessionId[ret'.store]} :
                   ~Has(FileTable(tempFile'), id)]_vars

\* browser session B has saved over a backup that held A's record, and no
\* file holds A's record now
C25_Witness ==
    /\ IsSave(ret)
    /\ ret.saved
    /\ ret.store = "B"
    /\ SessionId["A"] \in ret.held
    /\ Keys(FileTable(sessionFile)) = {SessionId["B"]}
    /\ Keys(FileTable(tempFile)) = {SessionId["B"]}

\* C26 (frame of the settings in memory): the settings document of a
\* constructed settings object changes only in a step of Save All Settings,
\* of a confirmed Reset to Defaults or of a successful Import.
\* (Fails under SpecSettings: a render with an edited widget value changes
\* the document through the shallow copy.)
C26_SettingsChangeOnlyOnButtons ==
    [][\A s \in settingsMade :
          settings'[s] # settings[s] => ret'.kind \in {"save_settings", "reset", "import_settings"}]_vars

\* C27 (two-step reset): a click on Reset to Defaults with confirm_reset
\* true makes the default document the settings, writes it to the settings
\* file and sets confirm_reset to false; a click with confirm_reset false
\* or absent sets it to true and leaves the settings and the file as they
\* were.  So every reset follows a click that asked for it.
\* (Holds under SpecReset.)
C27_TwoStepReset ==
    [][/\ ret'.kind = "reset" =>
            /\ "confirm_reset" \in DOMAIN st_state[ret'.store]
            /\ st_state[ret'.store]["confirm_reset"] = PyBool(TRUE)
            /\ settings'[ret'.store] = DefaultSettings
            /\ settingsFile' = FileOf(JsonDump(DefaultSettings))
            /\ st_state'[ret'.store]["confirm_reset"] = PyBool(FALSE)
       /\ ret'.kind = "reset_asked" =>
            /\ Get(st_state[ret'.store], "confirm_reset", PyBool(FALSE)) = PyBool(FALSE)
            /\ settings' = settings
            /\ settingsFile' = settingsFile
            /\ st_state'[ret'.store]["confirm_reset"] = PyBool(TRUE)]_vars

\* a reset has replaced saved settings that were not the defaults
C27_Witness ==
    /\ ret.kind = "reset"
    /\ ret.replaced # DefaultSettings
    /\ settings[ret.store] = DefaultSettings
    /\ savedDoc = [state |-> "saved", doc |-> DefaultSettings]
    /\ st_state[ret.store]["confirm_reset"] = PyBool(FALSE)

\* C28 (new-stream form recovery): after a submit that was rejected for its
\* empty title, which makes no platform call, and after a submit whose
\* creation failed, get_form_data('new_stream_form') returns the submitted
\* values; after a submit whose creation succeeded it returns {}.
\* (Holds under SpecSubmit.)
C28_FormRecovery ==
    ret.kind = "submit" =>
        LET got == get_form_data(session_data[ret.store], SessionId[ret.store],
                                 "new_stream_form")
        IN  /\ ret.rejected <=> ret.form.title = ""
            /\ ret.rejected => ret.calls = <<>> /\ ~ret.value
            /\ ~ret.value => got = FormDataOf(ret.form)
            /\ ret.value => got = PyDict(EmptyDict)
            /\ FileTable(sessionFile) = session_data[ret.store]

\* a creation that failed after the broadcast was inserted, submitted after
\* an earlier successful one had cleared the stored form
C28_Witness ==
    /\ ret.kind = "submit"
    /\ ~ret.value
    /\ ~ret.rejected
    /\ Len(ret.calls) >= 2
    /\ "new_stream_data" \in DOMAIN st_state[ret.store]
    /\ get_form_data(session_data[ret.store], SessionId[ret.store], "new_stream_form")
          = FormDataOf(ret.form)

\* the sum of the counts stored under the keys `keys`
RECURSIVE SumOf(_, _)
SumOf(counts, keys) ==
    IF keys = {} THEN 0
    ELSE LET k == CHOOSE x \in keys : TRUE
         IN  counts[k] + SumOf(counts, keys \ {k})

\* C29 (counter consistency): in the quota log written by any interleaving
\* of log_thumbnail_upload calls, starting from an empty log, every stored
\* count is a positive integer and the count stored for today is the sum of
\* the counts stored for today's hours.
\* (Holds under SpecLogRace.)
C29_CounterConsistency ==
    LET log == ReadLog(uploadLog)
        today == DateKey(DayOfHour(now))
    IN  /\ \A k \in DOMAIN log.daily : log.daily[k] \in Nat \ {0}
        /\ \A k \in DOMAIN log.hourly : log.hourly[k] \in Nat \ {0}
        /\ Get(log.daily, today, 0)
             = SumOf(log.hourly, {k \in DOMAIN log.hourly : k \div 100 = today})

\* a day with counts in two of its hours, after an update was lost
C29_Witness ==
    /\ ticks > 0
    /\ uploads.day > Get(ReadLog(uploadLog).daily, DateKey(DayOfHour(now)), 0)
    /\ \A s \in Stores : callers[s].pc = "idle"
    /\ Cardinality({k \in DOMAIN ReadLog(uploadLog).hourly :
                       k \div 100 = DateKey(DayOfHour(now))}) = 2

\* dictionary `after` is dictionary `before` except under the keys `except`
SameExcept(before, after, except) ==
    /\ Keys(after) \ except = Keys(before) \ except
    /\ \A k \in Keys(before) \ except : Item(after, k) = Item(before, k)

\* the current session's record of a table, {} when it has none
OwnRecord(table, sid) == ItemOr(table, sid, PyDict(EmptyDict))

\* C30 (frame of the session writers): in the table in memory,
\* save_form_data(name, d) changes only the entry for name in the current
\* session's form_data and that record's last_updated and session_id;
\* save_broadcast_data and clear_current_broadcast change only that record's
\* current_broadcast, last_updated and session_id.  Every other key of the
\* record and every other session's record stay as they were.
\* (Holds under SpecSession.)
C30_WriterFrame ==
    [][ret'.kind \in {"save_form_data", "save_broadcast_data",
                      "clear_current_broadcast", "clear_nothing"} =>
         LET s == ret'.store
             sid == SessionId[s]
             before == OwnRecord(session_data[s], sid)
             after == OwnRecord(session_data'[s], sid)
             stamps == {"last_updated", "session_id"}
         IN  /\ SameExcept(session_data[s], session_data'[s], {sid})
             /\ ret'.kind = "save_form_data" =>
                   /\ SameExcept(before, after, stamps \cup {"form_data"})
                   /\ SameExcept(ItemOr(before, "form_data", PyDict(EmptyDict)),
                                 ItemOr(after, "form_data", PyDict(EmptyDict)),
                                 {ret'.name})
             /\ ret'.kind # "save_form_data" =>
                   SameExcept(before, after, stamps \cup {"current_broadcast"})
             /\ ret'.kind = "clear_nothing" => session_data'[s] = session_data[s]]_vars

\* browser session B, whose table holds A's record with its broadcast, has
\* saved a form
C30_Witness ==
    /\ ret.kind = "save_form_data"
    /\ ret.store = "B"
    /\ Has(session_data["B"], SessionId["A"])
    /\ Has(Item(session_data["B"], SessionId["A"]), "current_broadcast")
    /\ Has(Item(session_data["B"], SessionId["B"]), "form_data")

====
